---- MODULE Spec2Model ----
(***************************************************************************)
(* Realtime connection layer of the backend (backend/websocket_auth.ts):   *)
(* WebSocketAuthenticator (extractJWTFromURL, validateJWT) and             *)
(* ConnectionManager (a Map from user id to WebSocket), together with the  *)
(* handshake flow that composes them (backend/websocket_auth_test.ts).     *)
(*                                                                         *)
(* Strings whose content the code inspects are sequences of atoms: a token *)
(* is a sequence whose atoms are either the whitespace atom " " or a word; *)
(* a URL is a sequence of lexemes.  JavaScript objects (WebSocket, Map)    *)
(* are references; the Maps live in a heap so that aliasing is visible.    *)
(*                                                                         *)
(* The second part models the validators of the unified record and message *)
(* types (mobile-app/App.tsx, the unified_types.ts part): pure functions   *)
(* from a JavaScript value to a ValidationResult { isValid, errors }, and   *)
(* the MessageTransformer between records and realtime messages.           *)
(*                                                                         *)
(* The third part models ConnectionService.acceptConnectionLink (the       *)
(* database utilities of the backend): concurrent calls, each a sequence   *)
(* of awaited statements on the tables connection_links and friendships.   *)
(***************************************************************************)
EXTENDS Integers, Sequences, FiniteSets, TLC

VARIABLES
    maps,       \* heap of Map objects: reference -> set of <<key, value>> entries
    held,       \* references to Maps returned by getAllConnections still held by a caller
    attempts,   \* connection attempts, in order of arrival; attempt i owns socket WS(i)
    ret,        \* the last ConnectionManager call and what it returned
    displaced,  \* history: <<userId, socket>> entries replaced by a later addConnection
    subject,    \* the value handed to a validator of unified_types.ts, with the validator's name
    report,     \* the ValidationResult the validator returned for `subject`
    connection_links,  \* the rows of the table connection_links, by token
    friendships,       \* the rows inserted into the table friendships, in order
    accepting          \* the calls of ConnectionService.acceptConnectionLink, in order of arrival

vars == <<maps, held, attempts, ret, displaced, subject, report,
          connection_links, friendships, accepting>>

\* The variables of the validators; the connection layer never touches them.
checked == <<subject, report>>

\* The variables of ConnectionService; only acceptConnectionLink touches them.
linked == <<connection_links, friendships, accepting>>

\* No validator has been called.
NoSubject == [validator |-> "none"]
NoReport == [returned |-> FALSE, isValid |-> FALSE, errors |-> <<>>]

(***************************************************************************)
(* Bounds of the model.                                                    *)
(***************************************************************************)
MaxConns == 3
MaxSnapshots == 1

(***************************************************************************)
(* JavaScript values.                                                      *)
(***************************************************************************)
Null == "null"
Undefined == "undefined"

WS(i) == "ws" \o ToString(i)

Users == {"user_123", "user_456"}

(***************************************************************************)
(* Map<string, WebSocket>: a keyed collection, modelled by its entries.    *)
(***************************************************************************)
MapHas(m, k) == \E e \in m : e[1] = k

MapGet(m, k) == IF MapHas(m, k) THEN (CHOOSE e \in m : e[1] = k)[2] ELSE Undefined

MapSet(m, k, v) == {e \in m : e[1] # k} \cup {<<k, v>>}

MapDelete(m, k) == {e \in m : e[1] # k}

MapKeys(m) == {e[1] : e \in m}

MapValues(m) == {e[2] : e \in m}

(***************************************************************************)
(* Text.  A string is a sequence of atoms; `string | null` is a sequence   *)
(* of at most one string: None is null, Some(s) is the string s.           *)
(***************************************************************************)
None == <<>>

Some(s) == <<s>>

Space == " "

\* s from its first atom that is not whitespace
TrimStart(s) ==
    IF \A i \in 1..Len(s) : s[i] = Space THEN <<>>
    ELSE SubSeq(s, CHOOSE i \in 1..Len(s) :
                       s[i] # Space /\ \A j \in 1..(i - 1) : s[j] = Space,
                Len(s))

\* s up to its last atom that is not whitespace
TrimEnd(s) ==
    IF \A i \in 1..Len(s) : s[i] = Space THEN <<>>
    ELSE SubSeq(s, 1, CHOOSE i \in 1..Len(s) :
                          s[i] # Space /\ \A j \in (i + 1)..Len(s) : s[j] = Space)

Trim(s) == TrimEnd(TrimStart(s))

IndexOf(s, x) ==
    IF \E i \in 1..Len(s) : s[i] = x
    THEN CHOOSE i \in 1..Len(s) : s[i] = x /\ \A j \in 1..(i - 1) : s[j] # x
    ELSE 0

Before(s, x) == IF IndexOf(s, x) = 0 THEN s ELSE SubSeq(s, 1, IndexOf(s, x) - 1)

After(s, x) == IF IndexOf(s, x) = 0 THEN <<>> ELSE SubSeq(s, IndexOf(s, x) + 1, Len(s))

RECURSIVE Split(_, _)
Split(s, sep) ==
    IF IndexOf(s, sep) = 0 THEN <<s>> ELSE <<Before(s, sep)>> \o Split(After(s, sep), sep)

(***************************************************************************)
(* new URL(url) and URLSearchParams.get, on URLs given as lexemes:         *)
(*   scheme  authority  path  [ "?" query ]  [ "#" fragment ]              *)
(* The constructor throws unless the text starts with a scheme and, for    *)
(* the ws/wss schemes, names a host.  A call's outcome is a record: either *)
(* it threw, or it returned `value`.                                       *)
(***************************************************************************)
Schemes == {"ws:", "wss:"}

Authorities == {"//localhost:8000", "//host"}

URLParses(url) == Len(url) >= 2 /\ url[1] \in Schemes /\ url[2] \in Authorities

URLSearch(url) == After(Before(url, "#"), "?")

NewURL(url) ==
    IF URLParses(url) THEN [thrown |-> FALSE, value |-> URLSearch(url)]
    ELSE [thrown |-> TRUE, value |-> <<>>]

PercentDecode(s) == [i \in 1..Len(s) |-> IF s[i] \in {"+", "%20"} THEN Space ELSE s[i]]

\* The name/value pairs of a query string, in order; empty pieces are skipped.
SearchParams(query) ==
    LET pieces == SelectSeq(Split(query, "&"), LAMBDA p : p # <<>>)
    IN  [i \in 1..Len(pieces) |->
            [name  |-> PercentDecode(Before(pieces[i], "=")),
             value |-> PercentDecode(After(pieces[i], "="))]]

\* URLSearchParams.get(name): the first value of that name, or null.
SearchParamsGet(params, name) ==
    IF \E i \in 1..Len(params) : params[i].name = name
    THEN Some(params[CHOOSE i \in 1..Len(params) :
                         /\ params[i].name = name
                         /\ \A j \in 1..(i - 1) : params[j].name # name].value)
    ELSE None

TokenParam == <<"token">>

\* A variant without the try/catch: the constructor's TypeError escapes.
extractJWTFromURL_uncaught(url) ==
    LET urlObject == NewURL(url)
    IN  IF urlObject.thrown THEN [thrown |-> TRUE, value |-> None]
        ELSE [thrown |-> FALSE,
              value  |-> SearchParamsGet(SearchParams(urlObject.value), TokenParam)]

extractJWTFromURL(url) ==
    LET urlObject == NewURL(url)
    IN  IF urlObject.thrown THEN [thrown |-> FALSE, value |-> None]
        ELSE [thrown |-> FALSE,
              value  |-> SearchParamsGet(SearchParams(urlObject.value), TokenParam)]

(***************************************************************************)
(* Handshake URLs, built from their parts and written out as lexemes.      *)
(***************************************************************************)
MaxParams == 2

WellFormedBases == {<<"ws:", "//localhost:8000", "/ws">>, <<"wss:", "//host", "/ws">>}

MalformedBases == {<<"not-a-url">>, <<"/ws">>, <<"ws:">>}

ParamNames == {TokenParam, <<"x">>}

ParamValues ==
    {<<>>, <<"abc123">>, <<"valid_jwt_token">>, <<Space>>, <<Space, Space>>,
     <<Space, "abc123", Space>>}

Fragments == {<<>>, <<"#", "frag">>, <<"#", "?", "token", "=", "zzz">>}

Params == [name : ParamNames, value : ParamValues]

ParamLists == UNION {[1..n -> Params] : n \in 0..MaxParams}

URLParts ==
    [base : WellFormedBases \cup MalformedBases, params : ParamLists,
     plus : BOOLEAN, fragment : Fragments]

PercentEncode(s, plus) ==
    [i \in 1..Len(s) |-> IF s[i] = Space THEN (IF plus THEN "+" ELSE "%20") ELSE s[i]]

RECURSIVE WriteParams(_, _)
WriteParams(ps, plus) ==
    IF ps = <<>> THEN <<>>
    ELSE PercentEncode(Head(ps).name, plus) \o <<"=">> \o PercentEncode(Head(ps).value, plus)
         \o (IF Tail(ps) = <<>> THEN <<>> ELSE <<"&">> \o WriteParams(Tail(ps), plus))

WriteURL(parts) ==
    parts.base
    \o (IF parts.params = <<>> THEN <<>> ELSE <<"?">> \o WriteParams(parts.params, parts.plus))
    \o parts.fragment

(***************************************************************************)
(* Result<AuthData, string>.                                               *)
(***************************************************************************)
NoAuthData == [userId |-> Undefined, email |-> Undefined]

Ok(v) == [ok |-> TRUE, value |-> v, error |-> Undefined]

Err(e) == [ok |-> FALSE, value |-> NoAuthData, error |-> e]

Pending == [ok |-> FALSE, value |-> NoAuthData, error |-> Undefined]

(***************************************************************************)
(* The identity provider, supabase.auth.getUser(jwt).  A response either   *)
(* resolves to { data: { user }, error } or rejects with a thrown value.   *)
(* `error` is null (None) or an error object carrying a message.           *)
(***************************************************************************)
NullUser == [id |-> Null, email |-> Null]

User123 == [id |-> "user_123", email |-> "test@example.com"]

User456 == [id |-> "user_456", email |-> "other@example.com"]

Resolves(user, error) == [thrown |-> "no", user |-> user, error |-> error]

\* what: "Error" (an Error instance), "string" or "object" (any other value).
Rejects(what, text) == [thrown |-> what, user |-> NullUser, error |-> Some(text)]

NoResponse == Resolves(NullUser, None)

\* The mock provider of the tests.
mockSupabase_getUser(jwt) ==
    IF jwt = <<"valid_jwt_token">> THEN Resolves(User123, None)
    ELSE IF jwt = <<"expired_jwt_token">> THEN Resolves(NullUser, Some("JWT expired"))
    ELSE Resolves(NullUser, Some("Invalid JWT"))

ProviderMessages == {"JWT expired", "Invalid JWT", ""}

AllResponses ==
    {Resolves(u, e) : u \in {NullUser, User123, User456},
                      e \in {None} \cup {Some(m) : m \in ProviderMessages}}
    \cup {Rejects(w, "fetch failed") : w \in {"Error", "string", "object"}}

\* String(error) of a thrown value that is not an Error instance.
StringOf(resp) == IF resp.thrown = "string" THEN resp.error[1] ELSE "[object Object]"

(***************************************************************************)
(* WebSocketAuthenticator.validateJWT.  The part before the await decides  *)
(* whether the provider is called; the part after it maps the response.    *)
(***************************************************************************)
\* A variant that tests only for the empty string.
IsBlank_untrimmed(jwt) == jwt = None \/ jwt[1] = <<>>

\* !jwt || jwt.trim() === ""
IsBlank(jwt) == jwt = None \/ jwt[1] = <<>> \/ Trim(jwt[1]) = <<>>

MissingJWT == Err("Missing JWT token")

\* A variant that looks at the user before the error.
validateJWT_result_userFirst(resp) ==
    IF resp.thrown # "no"
    THEN Err("JWT validation failed: "
             \o (IF resp.thrown = "Error" THEN resp.error[1] ELSE StringOf(resp)))
    ELSE IF resp.user # NullUser
    THEN Ok([userId |-> resp.user.id, email |-> resp.user.email])
    ELSE IF resp.error # None THEN Err(resp.error[1])
    ELSE Err("No user found for token")

\* A variant that reports every rejection with one fixed text.
validateJWT_result_fixedText(resp) ==
    IF resp.thrown # "no" \/ resp.error # None \/ resp.user = NullUser
    THEN Err("Authentication failed")
    ELSE Ok([userId |-> resp.user.id, email |-> resp.user.email])

\* A variant without the try/catch: what the provider throws escapes, and the
\* call ends without a result.
validateJWT_result_uncaught(resp) ==
    IF resp.thrown # "no" THEN Pending
    ELSE IF resp.error # None THEN Err(resp.error[1])
    ELSE IF resp.user = NullUser THEN Err("No user found for token")
    ELSE Ok([userId |-> resp.user.id, email |-> resp.user.email])

validateJWT_result(resp) ==
    IF resp.thrown # "no"
    THEN Err("JWT validation failed: "
             \o (IF resp.thrown = "Error" THEN resp.error[1] ELSE StringOf(resp)))
    ELSE IF resp.error # None THEN Err(resp.error[1])
    ELSE IF resp.user = NullUser THEN Err("No user found for token")
    ELSE Ok([userId |-> resp.user.id, email |-> resp.user.email])

(***************************************************************************)
(* ConnectionManager.  `connections` is the Map at ConnectionsRef; every   *)
(* method takes the heap and yields the new heap and the returned value.   *)
(***************************************************************************)
ConnectionsRef == 0

Connections(h) == h[ConnectionsRef]

\* A variant that deletes an existing entry first and inserts on the next call.
addConnection_deleteFirst(h, userId, webSocket) ==
    [heap  |-> [h EXCEPT ![ConnectionsRef] =
                    IF MapHas(@, userId) THEN MapDelete(@, userId)
                    ELSE MapSet(@, userId, webSocket)],
     value |-> Undefined]

\* A variant that keeps an existing entry instead of replacing it.
addConnection_keepExisting(h, userId, webSocket) ==
    [heap  |-> [h EXCEPT ![ConnectionsRef] =
                    IF MapHas(@, userId) THEN @ ELSE MapSet(@, userId, webSocket)],
     value |-> Undefined]

\* A variant that appends the entry without replacing an existing one.
addConnection_append(h, userId, webSocket) ==
    [heap  |-> [h EXCEPT ![ConnectionsRef] = @ \cup {<<userId, webSocket>>}],
     value |-> Undefined]

addConnection(h, userId, webSocket) ==
    [heap  |-> [h EXCEPT ![ConnectionsRef] = MapSet(@, userId, webSocket)],
     value |-> Undefined]

removeConnection(h, userId) ==
    [heap  |-> [h EXCEPT ![ConnectionsRef] = MapDelete(@, userId)],
     value |-> Undefined]

hasConnection(h, userId) == MapHas(Connections(h), userId)

\* this.connections.get(userId) || null
getConnection(h, userId) ==
    IF MapGet(Connections(h), userId) = Undefined THEN Null
    ELSE MapGet(Connections(h), userId)

\* new Map(source): a fresh Map object holding the source's entries.
NewMap(h, source) ==
    LET ref == CHOOSE r \in 0..Cardinality(DOMAIN h) :
                   r \notin DOMAIN h /\ \A q \in 0..(r - 1) : q \in DOMAIN h
    IN  [heap |-> (ref :> h[source]) @@ h, value |-> ref]

\* A variant that hands out the private Map itself.
getAllConnections_alias(h) == [heap |-> h, value |-> ConnectionsRef]

getAllConnections(h) == NewMap(h, ConnectionsRef)

BoolText(b) == IF b THEN "true" ELSE "false"

Call(op, userId, webSocket, value) ==
    [op |-> op, userId |-> userId, webSocket |-> webSocket, value |-> value]

(***************************************************************************)
(* The handshake of one connection attempt, as the flow tests compose it:  *)
(*   jwt = extractJWTFromURL(url); authResult = await validateJWT(jwt);    *)
(*   on success addConnection(authResult.userId, webSocket).               *)
(* The code up to the await runs as one step; the provider's answer and    *)
(* the continuation after validateJWT are later steps.                     *)
(***************************************************************************)
Attempt(parts, jwt, pc, calls, resp, result) ==
    [parts |-> parts, url |-> WriteURL(parts), jwt |-> jwt, pc |-> pc, calls |-> calls,
     resp |-> resp, result |-> result]

Attempts == 1..Len(attempts)

Init ==
    /\ maps = (ConnectionsRef :> {})
    /\ held = {}
    /\ attempts = <<>>
    /\ ret = Call("new", Undefined, Undefined, Undefined)
    /\ displaced = {}
    /\ subject = NoSubject
    /\ report = NoReport
    /\ connection_links = {}
    /\ friendships = <<>>
    /\ accepting = <<>>

\* The client writes its URL from `parts`; the server sees the written URL only.
Handshake(parts) ==
    /\ Len(attempts) < MaxConns
    /\ LET extracted == extractJWTFromURL(WriteURL(parts))
           jwt == extracted.value
       IN  attempts' = Append(attempts,
               IF extracted.thrown THEN Attempt(parts, None, "threw", 0, NoResponse, Pending)
               ELSE IF IsBlank(jwt) THEN Attempt(parts, jwt, "resolved", 0, NoResponse, MissingJWT)
               ELSE Attempt(parts, jwt, "awaiting", 1, NoResponse, Pending))
    /\ UNCHANGED <<maps, held, ret, displaced, checked, linked>>

GetUserReply(c, resp) ==
    /\ attempts[c].pc = "awaiting"
    /\ attempts' = [attempts EXCEPT ![c].pc = "resolved", ![c].resp = resp,
                                    ![c].result = validateJWT_result(resp)]
    /\ UNCHANGED <<maps, held, ret, displaced, checked, linked>>

\* A variant that stores the connection whatever the result.
Authenticated_always(authResult) == TRUE

Authenticated(authResult) == authResult.ok

Store(c) ==
    /\ attempts[c].pc = "resolved"
    /\ Authenticated(attempts[c].result)
    /\ LET userId == attempts[c].result.value.userId
           call == addConnection(maps, userId, WS(c))
       IN  /\ maps' = call.heap
           /\ ret' = Call("addConnection", userId, WS(c), call.value)
           /\ displaced' = displaced \cup
                  {e \in Connections(maps) : e[1] = userId /\ e[2] # WS(c)}
    /\ attempts' = [attempts EXCEPT ![c].pc = "open"]
    /\ UNCHANGED <<held, checked, linked>>

Refuse(c) ==
    /\ attempts[c].pc = "resolved"
    /\ ~Authenticated(attempts[c].result)
    /\ attempts' = [attempts EXCEPT ![c].pc = "refused"]
    /\ UNCHANGED <<maps, held, ret, displaced, checked, linked>>

\* The socket of attempt c closes: its owner unregisters it.
Teardown(c) ==
    /\ attempts[c].pc = "open"
    /\ LET userId == attempts[c].result.value.userId
           call == removeConnection(maps, userId)
       IN  /\ maps' = call.heap
           /\ ret' = Call("removeConnection", userId, WS(c), call.value)
    /\ attempts' = [attempts EXCEPT ![c].pc = "closed"]
    /\ UNCHANGED <<held, displaced, checked, linked>>

HasConnection(userId) ==
    /\ ret' = Call("hasConnection", userId, Undefined, BoolText(hasConnection(maps, userId)))
    /\ UNCHANGED <<maps, held, attempts, displaced, checked, linked>>

GetConnection(userId) ==
    /\ ret' = Call("getConnection", userId, Undefined, getConnection(maps, userId))
    /\ UNCHANGED <<maps, held, attempts, displaced, checked, linked>>

GetAllConnections ==
    /\ Cardinality(held) < MaxSnapshots
    /\ LET call == getAllConnections(maps)
       IN  /\ maps' = call.heap
           /\ held' = held \cup {call.value}
    /\ ret' = Call("getAllConnections", Undefined, Undefined, "[object Map]")
    /\ UNCHANGED <<attempts, displaced, checked, linked>>

\* The holder of a returned Map changes it, or lets go of it.
SnapshotSet(ref, userId, webSocket) ==
    /\ ref \in held
    /\ maps' = [maps EXCEPT ![ref] = MapSet(@, userId, webSocket)]
    /\ UNCHANGED <<held, attempts, ret, displaced, checked, linked>>

SnapshotDelete(ref, userId) ==
    /\ ref \in held
    /\ maps' = [maps EXCEPT ![ref] = MapDelete(@, userId)]
    /\ UNCHANGED <<held, attempts, ret, displaced, checked, linked>>

SnapshotDrop(ref) ==
    /\ ref \in held
    /\ held' = held \ {ref}
    /\ maps' = [r \in DOMAIN maps \ ({ref} \ {ConnectionsRef}) |-> maps[r]]
    /\ UNCHANGED <<attempts, ret, displaced, checked, linked>>

(***************************************************************************)
(* The running server: a few attempts in flight, the provider answering    *)
(* as it pleases.                                                          *)
(***************************************************************************)
LocalBase == <<"ws:", "//localhost:8000", "/ws">>

FlowURLs ==
    {[base |-> LocalBase, plus |-> FALSE, fragment |-> <<>>,
      params |-> <<[name |-> TokenParam, value |-> <<"valid_jwt_token">>]>>],
     [base |-> LocalBase, plus |-> FALSE, fragment |-> <<>>, params |-> <<>>]}

FlowResponses ==
    {Resolves(User123, None), Resolves(User456, None),
     Resolves(NullUser, Some("Invalid JWT"))}

Connect == \E parts \in FlowURLs : Handshake(parts)

Reply == \E c \in Attempts, resp \in FlowResponses : GetUserReply(c, resp)

Register == \E c \in Attempts : Store(c)

Reject == \E c \in Attempts : Refuse(c)

Close == \E c \in Attempts : Teardown(c)

Lookup == \E userId \in Users : HasConnection(userId) \/ GetConnection(userId)

Next ==
    \/ Connect
    \/ Reply
    \/ Register
    \/ Reject
    \/ Close
    \/ Lookup

Spec == Init /\ [][Next]_vars

(***************************************************************************)
(* The registry with callers that take, change and drop snapshots of it,   *)
(* while authenticated users connect and disconnect.                       *)
(***************************************************************************)
MaxRegistryConns == 2

ConnectUser ==
    /\ Len(attempts) < MaxRegistryConns
    /\ \E parts \in FlowURLs : parts.params # <<>> /\ Handshake(parts)

ReplyUser ==
    \E c \in Attempts, resp \in FlowResponses : resp.user # NullUser /\ GetUserReply(c, resp)

Snapshot == GetAllConnections

SnapshotUse ==
    \E ref \in held, userId \in Users :
        \/ SnapshotDelete(ref, userId)
        \/ \E c \in Attempts : SnapshotSet(ref, userId, WS(c))

SnapshotRelease == \E ref \in held : SnapshotDrop(ref)

NextRegistry ==
    \/ ConnectUser
    \/ ReplyUser
    \/ Register
    \/ Close
    \/ Snapshot
    \/ SnapshotUse
    \/ SnapshotRelease

SpecRegistry == Init /\ [][NextRegistry]_vars

(***************************************************************************)
(* One handshake on any URL with any answer of the provider.               *)
(***************************************************************************)
ConnectAny == attempts = <<>> /\ \E parts \in URLParts : Handshake(parts)

ReplyAny == \E c \in Attempts, resp \in AllResponses : GetUserReply(c, resp)

NextAuth ==
    \/ ConnectAny
    \/ ReplyAny

SpecAuth == Init /\ [][NextAuth]_vars

(***************************************************************************)
(* Properties.                                                             *)
(***************************************************************************)
UserOf(c) == attempts[c].result.value.userId

\* The step registers attempt c / tears attempt c down.
StoreStep(c) == attempts[c].pc = "resolved" /\ attempts'[c].pc = "open"

TeardownStep(c) == attempts[c].pc = "open" /\ attempts'[c].pc = "closed"

\* C1: when the socket of attempt c closes after a later socket of the same user
\* displaced it, the unregister is a no-op (the later socket stays registered);
\* the unregister of the socket that is registered removes the entry.
C1_StaleTeardownIsNoOp ==
    [][\A c \in Attempts :
          TeardownStep(c) =>
              IF getConnection(maps, UserOf(c)) = WS(c)
              THEN ~hasConnection(maps', UserOf(c))
              ELSE Connections(maps') = Connections(maps)]_vars

C3_AtomicSwap ==
    [][\A u \in Users :
          hasConnection(maps, u) /\ ~hasConnection(maps', u) =>
              \E c \in Attempts : TeardownStep(c) /\ UserOf(c) = u]_vars

C3_Witness ==
    \E c1, c2 \in Attempts :
        /\ c1 < c2
        /\ attempts[c1].pc = "open" /\ attempts[c2].pc = "open"
        /\ UserOf(c1) = UserOf(c2)
        /\ getConnection(maps, UserOf(c2)) = WS(c2)

\* C4: the registry holds at most one connection per identity; a connection that
\* a later register displaced is not what lookup returns, is not in the registry,
\* and is in no snapshot taken afterwards.
C4_OnePerIdentity ==
    /\ [](/\ Cardinality(MapKeys(Connections(maps))) = Cardinality(Connections(maps))
          /\ \A e \in displaced :
                 e \notin Connections(maps) /\ getConnection(maps, e[1]) # e[2])
    /\ [][\A ref \in held' \ held : maps'[ref] \cap displaced = {}]_vars

C4_Witness ==
    /\ displaced # {}
    /\ ret.op = "getAllConnections"
    /\ \E ref \in held : maps[ref] # {} /\ maps[ref] = Connections(maps)

WhitespaceOnly(jwt) == jwt = None \/ \A i \in 1..Len(jwt[1]) : jwt[1][i] = Space

\* C6: validateJWT of an empty or whitespace-only token has resolved to the
\* "Missing JWT token" error by the end of the call and has not called the provider.
C6_BlankTokenIsMissing ==
    \A c \in Attempts :
        WhitespaceOnly(attempts[c].jwt) /\ attempts[c].pc # "threw" =>
            /\ attempts[c].pc = "resolved"
            /\ attempts[c].result = Err("Missing JWT token")
            /\ attempts[c].calls = 0

C6_Witness ==
    \E c \in Attempts :
        attempts[c].jwt = Some(<<Space>>) /\ attempts[c].result = Err("Missing JWT token")

\* The provider answered with an error or without a user.
Refused(resp) == resp.thrown = "no" /\ (resp.error # None \/ resp.user = NullUser)

\* C7 as stated: on a non-blank token the provider is called once, and when it
\* answers with an error or without a user the result is an error whose text is
\* the message the provider gave.
C7_RejectedWithProviderMessage ==
    \A c \in Attempts :
        ~WhitespaceOnly(attempts[c].jwt) =>
            /\ attempts[c].calls = 1
            /\ attempts[c].pc = "resolved" /\ Refused(attempts[c].resp) =>
                   /\ ~attempts[c].result.ok
                   /\ attempts[c].resp.error # None
                   /\ attempts[c].result.error = attempts[c].resp.error[1]

\* C7 as amended: the text is the provider's message when the provider reported an
\* error, and the fixed text "No user found for token" when it reported none.
C7_RejectedWithMessageOrNoUser ==
    \A c \in Attempts :
        ~WhitespaceOnly(attempts[c].jwt) =>
            /\ attempts[c].calls = 1
            /\ attempts[c].pc = "resolved" /\ Refused(attempts[c].resp) =>
                   /\ ~attempts[c].result.ok
                   /\ attempts[c].result.value = NoAuthData
                   /\ attempts[c].result.error =
                          IF attempts[c].resp.error # None THEN attempts[c].resp.error[1]
                          ELSE "No user found for token"

C7_Witness ==
    \E c \in Attempts :
        /\ attempts[c].pc = "resolved"
        /\ attempts[c].resp = Resolves(NullUser, Some("JWT expired"))
        /\ attempts[c].result.error = "JWT expired"

\* The provider answered with a user and no error.
Accepted(resp) == resp.thrown = "no" /\ resp.error = None /\ resp.user # NullUser

\* C8: validateJWT returns ok exactly when the provider answered the call with a
\* user and no error, and then carries that user's id and email; the tests'
\* provider on "valid_jwt_token" gives user_123, test@example.com.
C8_OkCarriesProviderUser ==
    \A c \in Attempts :
        /\ attempts[c].result.ok <=>
               /\ attempts[c].pc = "resolved"
               /\ attempts[c].calls = 1
               /\ Accepted(attempts[c].resp)
        /\ attempts[c].result.ok =>
               attempts[c].result.value = [userId |-> attempts[c].resp.user.id,
                                           email  |-> attempts[c].resp.user.email]
        /\ /\ attempts[c].pc = "resolved"
           /\ attempts[c].jwt = Some(<<"valid_jwt_token">>)
           /\ attempts[c].resp = mockSupabase_getUser(<<"valid_jwt_token">>)
           => attempts[c].result =
                  Ok([userId |-> "user_123", email |-> "test@example.com"])

C8_Witness ==
    \E c \in Attempts :
        /\ attempts[c].jwt = Some(<<"valid_jwt_token">>)
        /\ attempts[c].result = Ok([userId |-> "user_123", email |-> "test@example.com"])

\* The value of the first `token` parameter the client wrote into a well-formed
\* URL; none for a malformed URL or one without the parameter.
TokenWritten(parts) ==
    IF /\ parts.base \in WellFormedBases
       /\ \E i \in 1..Len(parts.params) : parts.params[i].name = TokenParam
    THEN Some(parts.params[CHOOSE i \in 1..Len(parts.params) :
                               /\ parts.params[i].name = TokenParam
                               /\ \A j \in 1..(i - 1) : parts.params[j].name # TokenParam].value)
    ELSE None

\* C9: extractJWTFromURL never throws; it returns the value of the token parameter
\* of a well-formed URL that carries one, and null when the URL is malformed or
\* carries none.
C9_ExtractToken ==
    \A c \in Attempts :
        /\ attempts[c].pc # "threw"
        /\ attempts[c].jwt = TokenWritten(attempts[c].parts)

C9_Witness ==
    \E c \in Attempts :
        /\ attempts[c].parts.base \in MalformedBases
        /\ \E i \in 1..Len(attempts[c].parts.params) :
               /\ attempts[c].parts.params[i].name = TokenParam
               /\ attempts[c].parts.params[i].value # <<>>
        /\ attempts[c].jwt = None

\* C10: getAllConnections returns a new Map equal to the registry at the call; a
\* later register or unregister changes no Map a caller holds; and what a holder
\* does to its Map does not change the registry.
C10_SnapshotIsolated ==
    [][/\ \A ref \in held' \ held :
              /\ ref # ConnectionsRef
              /\ maps'[ref] = Connections(maps)
              /\ Connections(maps') = Connections(maps)
       /\ \A ref \in held \cap held' :
              Connections(maps') # Connections(maps) => maps'[ref] = maps[ref]
       /\ attempts' = attempts => Connections(maps') = Connections(maps)]_vars

C10_Witness ==
    \E ref \in held :
        /\ ref # ConnectionsRef
        /\ maps[ref] # {} /\ Connections(maps) # {}
        /\ MapKeys(maps[ref]) = MapKeys(Connections(maps))
        /\ maps[ref] # Connections(maps)

\* C11: the removeConnection call made when connection c of user u closes removes
\* at most one registry entry, the entry it removes is the one holding c, and it
\* adds or changes no entry of any user.
C11_CloseRemovesOwnEntry ==
    [][\A c \in Attempts :
          TeardownStep(c) =>
              LET removed == Connections(maps) \ Connections(maps')
              IN  /\ Cardinality(removed) <= 1
                  /\ removed \subseteq {<<UserOf(c), WS(c)>>}
                  /\ Connections(maps') \subseteq Connections(maps)]_vars

(***************************************************************************)
(* JavaScript values as the validators of unified_types.ts see them.       *)
(* A value carries its type tag t.  A string carries its text s, a         *)
(* sequence of atoms: characters where the code counts or matches them     *)
(* (identifiers, message content), lexemes where it parses them (dates),   *)
(* one word where it only compares them (enumeration members).  A number   *)
(* carries its whole part n and f, which tells an integer ("int") from     *)
(* n + 0.5 ("half") and from NaN ("nan").                                  *)
(***************************************************************************)
Value(t, s, n, f) == [t |-> t, s |-> s, n |-> n, f |-> f]
Str(s) == Value("string", s, 0, "int")
Num(n) == Value("number", <<>>, n, "int")
NumHalf(n) == Value("number", <<>>, n, "half")
NumNaN == Value("number", <<>>, 0, "nan")
JSNull == Value("null", <<>>, 0, "int")
JSUndefined == Value("undefined", <<>>, 0, "int")

\* An object with the properties `o`; a value that is no object answers
\* undefined for every property, which the caller passes as `o`.
WithProperties(v, o) == [t |-> v.t, s |-> v.s, n |-> v.n, f |-> v.f, o |-> o]
Object(o) == WithProperties(Value("object", <<>>, 0, "int"), o)

\* An array with the elements `cells`; a value that is no array has none.
WithElements(v, cells) == [t |-> v.t, s |-> v.s, n |-> v.n, f |-> v.f, cells |-> cells]
Array(cells) == WithElements(Value("array", <<>>, 0, "int"), cells)

\* typeof v
TypeOf(v) == IF v.t \in {"null", "array"} THEN "object" ELSE v.t

\* ToBoolean(v), the test made by `!v`, `v &&` and `if (v)`
Truthy(v) ==
    CASE v.t = "string" -> v.s # <<>>
      [] v.t = "number" -> v.f # "nan" /\ ~(v.f = "int" /\ v.n = 0)
      [] v.t \in {"null", "undefined"} -> FALSE
      [] OTHER -> TRUE

\* a === b for two values that are not objects
StrictEquals(a, b) ==
    /\ a.t = b.t /\ a.s = b.s /\ a.n = b.n /\ a.f = b.f
    /\ a.f # "nan"

\* x < k and x > k for a number x and an integer literal k
LessThan(x, k) == x.f # "nan" /\ x.n < k
GreaterThan(x, k) == x.f # "nan" /\ (IF x.f = "half" THEN x.n >= k ELSE x.n > k)

\* Array.isArray(v) and [...].includes(v) for an array literal of strings
isArray(v) == v.t = "array"
Includes(words, v) == v.t = "string" /\ v.s \in words

\* { isValid: errors.length === 0, errors }
ValidationResult(errors) ==
    [returned |-> TRUE, isValid |-> Len(errors) = 0, errors |-> errors]

\* if (violated) errors.push(message), as the errors it appends
Push(violated, message) == IF violated THEN <<message>> ELSE <<>>

\* errors.includes(message)
Reports(result, message) == \E i \in 1..Len(result.errors) : result.errors[i] = message

(***************************************************************************)
(* The format predicates of the validators.                                *)
(***************************************************************************)
Digits == {"0", "1", "2", "3", "4", "5", "6", "7", "8", "9"}
HexDigits == Digits \cup {"a", "b", "c", "d", "e", "f", "A", "B", "C", "D", "E", "F"}

\* /^[0-9a-f]{8}-[0-9a-f]{4}-[1-5][0-9a-f]{3}-[89ab][0-9a-f]{3}-[0-9a-f]{12}$/i
\* tested on the characters of `uuid`
isValidUUID(uuid) ==
    /\ Len(uuid) = 36
    /\ \A i \in 1..36 :
           CASE i \in {9, 14, 19, 24} -> uuid[i] = "-"
             [] i = 15 -> uuid[i] \in {"1", "2", "3", "4", "5"}
             [] i = 20 -> uuid[i] \in {"8", "9", "a", "b", "A", "B"}
             [] OTHER -> uuid[i] \in HexDigits

\* Date strings are sequences of lexemes: a calendar day, "T", a time of day,
\* a fraction of a second and the zone "Z".
CalendarDays == {"2025-06-05", "2025-06-06"}
ClockTimes == {"12:00:00", "00:00:00"}

\* The fraction of a second written with three digits, as toISOString writes it.
Milliseconds(fraction) ==
    CASE fraction = ".000" -> ".000"
      [] fraction = ".5" -> ".500"
      [] fraction = ".500" -> ".500"
      [] OTHER -> "NaN"

InvalidDate == [time |-> "NaN", day |-> "", clock |-> "", ms |-> ""]
Instant(day, clock, ms) == [time |-> "instant", day |-> day, clock |-> clock, ms |-> ms]

\* new Date(dateString): the forms of the date-time string format the inputs
\* use (a day alone is midnight UTC; the fraction of a second is optional);
\* any other text is an Invalid Date.
NewDate(dateString) ==
    CASE Len(dateString) = 1 /\ dateString[1] \in CalendarDays ->
             Instant(dateString[1], "00:00:00", ".000")
      [] /\ Len(dateString) = 4
         /\ dateString[1] \in CalendarDays /\ dateString[2] = "T"
         /\ dateString[3] \in ClockTimes /\ dateString[4] = "Z" ->
             Instant(dateString[1], dateString[3], ".000")
      [] /\ Len(dateString) = 5
         /\ dateString[1] \in CalendarDays /\ dateString[2] = "T"
         /\ dateString[3] \in ClockTimes /\ Milliseconds(dateString[4]) # "NaN"
         /\ dateString[5] = "Z" ->
             Instant(dateString[1], dateString[3], Milliseconds(dateString[4]))
      [] OTHER -> InvalidDate

\* isNaN(date.getTime())
IsNaNTime(date) == date.time = "NaN"

\* date.toISOString() of a valid date
toISOString(date) == <<date.day, "T", date.clock, date.ms, "Z">>

isValidISODate(dateString) ==
    LET date == NewDate(dateString)
    IN  ~IsNaNTime(date) /\ dateString = toISOString(date)

isValidFriendshipStatus(status) ==
    Includes({<<"pending">>, <<"accepted">>, <<"blocked">>}, status)

isValidGameType(gameType) == Includes({<<"tic_tac_toe">>}, gameType)

isValidSessionStatus(status) ==
    Includes({<<"invited">>, <<"accepted">>, <<"in_progress">>, <<"completed">>}, status)

isValidMessageType(messageType) ==
    Includes({<<"text">>, <<"image">>, <<"system">>}, messageType)

isValidRealtimeMessageType(type) ==
    Includes({<<"chat">>, <<"game_move">>, <<"game_invite">>, <<"game_accept">>,
              <<"game_complete">>, <<"friend_request">>, <<"friend_accept">>,
              <<"presence_update">>, <<"typing_indicator">>, <<"connection_status">>},
             type)

(***************************************************************************)
(* The record validators.  Each returns at once for a value that is no     *)
(* object and otherwise appends one error per failed check, in the order   *)
(* of the checks.                                                          *)
(***************************************************************************)
\* !v || typeof v !== "string" || !isValidUUID(v)
NotUUID(v) == ~Truthy(v) \/ TypeOf(v) # "string" \/ ~isValidUUID(v.s)

\* !v || typeof v !== "string" || !isValidISODate(v)
NotISODate(v) == ~Truthy(v) \/ TypeOf(v) # "string" \/ ~isValidISODate(v.s)

\* v && (typeof v !== "string" || !isValidISODate(v))
PresentNotISODate(v) == Truthy(v) /\ (TypeOf(v) # "string" \/ ~isValidISODate(v.s))

\* A variant that tests only whether the value is falsy.
NotObject_falsyOnly(value) == ~Truthy(value)

\* !value || typeof value !== "object"
NotObject(value) == ~Truthy(value) \/ TypeOf(value) # "object"

\* return { isValid: false, errors: [message] }
Rejected(message) == [returned |-> TRUE, isValid |-> FALSE, errors |-> <<message>>]

\* A variant that never compares the two users.
SameUsers_unchecked(friendship) == FALSE

\* friendship.user1_id === friendship.user2_id
SameUsers(friendship) == StrictEquals(friendship.o.user1_id, friendship.o.user2_id)

\* friendship.status === "accepted" && !friendship.accepted_at
AcceptedWithoutTimestamp(friendship) ==
    /\ StrictEquals(friendship.o.status, Str(<<"accepted">>))
    /\ ~Truthy(friendship.o.accepted_at)

validateFriendship(friendship) ==
    IF NotObject(friendship)
    THEN Rejected("Friendship must be an object")
    ELSE ValidationResult(
             Push(NotUUID(friendship.o.id), "Invalid UUID format for id")
          \o Push(NotUUID(friendship.o.user1_id), "Invalid UUID format for user1_id")
          \o Push(NotUUID(friendship.o.user2_id), "Invalid UUID format for user2_id")
          \o Push(SameUsers(friendship), "Users cannot be friends with themselves")
          \o Push(~Truthy(friendship.o.status) \/ ~isValidFriendshipStatus(friendship.o.status),
                  "Invalid friendship status")
          \o Push(NotISODate(friendship.o.created_at), "Invalid date format for created_at")
          \o Push(AcceptedWithoutTimestamp(friendship),
                  "Accepted friendships must have accepted_at timestamp")
          \o Push(PresentNotISODate(friendship.o.accepted_at),
                  "Invalid date format for accepted_at"))

\* session.player1_id === session.player2_id
SamePlayers(session) == StrictEquals(session.o.player1_id, session.o.player2_id)

\* A variant that does not skip a session without a winner.
WinnerNotPlayer_unguarded(session) ==
    /\ ~StrictEquals(session.o.winner_id, session.o.player1_id)
    /\ ~StrictEquals(session.o.winner_id, session.o.player2_id)

\* session.winner_id && session.winner_id !== session.player1_id
\*                   && session.winner_id !== session.player2_id
WinnerNotPlayer(session) ==
    /\ Truthy(session.o.winner_id)
    /\ ~StrictEquals(session.o.winner_id, session.o.player1_id)
    /\ ~StrictEquals(session.o.winner_id, session.o.player2_id)

\* A variant without the else branch.
CompletionErrors_completedOnly(session) ==
    IF StrictEquals(session.o.status, Str(<<"completed">>))
    THEN Push(~Truthy(session.o.completed_at),
              "Completed sessions must have completed_at timestamp")
    ELSE <<>>

\* if (session.status === "completed") { if (!session.completed_at) ... }
\* else { if (session.completed_at) ... }
CompletionErrors(session) ==
    IF StrictEquals(session.o.status, Str(<<"completed">>))
    THEN Push(~Truthy(session.o.completed_at),
              "Completed sessions must have completed_at timestamp")
    ELSE Push(Truthy(session.o.completed_at),
              "Non-completed sessions must not have completed_at timestamp")

validateGameSession(session) ==
    IF NotObject(session)
    THEN Rejected("Game session must be an object")
    ELSE ValidationResult(
             Push(NotUUID(session.o.id), "Invalid UUID format for id")
          \o Push(NotUUID(session.o.player1_id), "Invalid UUID format for player1_id")
          \o Push(NotUUID(session.o.player2_id), "Invalid UUID format for player2_id")
          \o Push(SamePlayers(session), "Players cannot play against themselves")
          \o Push(~Truthy(session.o.game_type) \/ ~isValidGameType(session.o.game_type),
                  "Invalid game type")
          \o Push(~Truthy(session.o.status) \/ ~isValidSessionStatus(session.o.status),
                  "Invalid session status")
          \o Push(/\ ~StrictEquals(session.o.winner_id, JSNull)
                  /\ (TypeOf(session.o.winner_id) # "string" \/ ~isValidUUID(session.o.winner_id.s)),
                  "Invalid UUID format for winner_id")
          \o Push(WinnerNotPlayer(session), "Winner must be one of the players")
          \o Push(NotISODate(session.o.created_at), "Invalid date format for created_at")
          \o Push(NotISODate(session.o.updated_at), "Invalid date format for updated_at")
          \o CompletionErrors(session)
          \o Push(PresentNotISODate(session.o.completed_at),
                  "Invalid date format for completed_at"))

\* A variant that looks at the length of the board only.
BoardErrors_lengthOnly(game) ==
    Push(~isArray(game.o.board_state) \/ Len(game.o.board_state.cells) # 9,
         "Tic-tac-toe board must have exactly 9 positions")

\* if (!Array.isArray(game.board_state) || game.board_state.length !== 9) ...
\* else: the loop over the positions, which stops at the first bad one
BoardErrors(game) ==
    IF ~isArray(game.o.board_state) \/ Len(game.o.board_state.cells) # 9
    THEN <<"Tic-tac-toe board must have exactly 9 positions">>
    ELSE Push(\E i \in 1..Len(game.o.board_state.cells) :
                  LET position == game.o.board_state.cells[i]
                  IN  TypeOf(position) # "string"
                          \/ ~Includes({<<"X">>, <<"O">>, <<>>}, position),
              "Board positions must be 'X', 'O', or empty string")

validateTicTacToeGame(game) ==
    IF NotObject(game)
    THEN Rejected("Tic-tac-toe game must be an object")
    ELSE ValidationResult(
             Push(NotUUID(game.o.session_id), "Invalid UUID format for session_id")
          \o BoardErrors(game)
          \o Push(NotUUID(game.o.current_turn), "Invalid UUID format for current_turn"))

\* message.sender_id === message.receiver_id
SameParties(message) == StrictEquals(message.o.sender_id, message.o.receiver_id)

\* The most characters a chat message may have.
MaxContentLength == 5000

\* A variant whose limit is one character lower.
ContentErrors_offByOne(message) ==
    IF \/ ~Truthy(message.o.content)
       \/ TypeOf(message.o.content) # "string"
       \/ Trim(message.o.content.s) = <<>>
    THEN <<"Message content cannot be empty">>
    ELSE Push(Len(message.o.content.s) >= MaxContentLength,
              "Message content exceeds maximum length of 5000 characters")

\* if (!message.content || typeof message.content !== "string"
\*     || message.content.trim() === "") ...
\* else if (message.content.length > 5000) ...
ContentErrors(message) ==
    IF \/ ~Truthy(message.o.content)
       \/ TypeOf(message.o.content) # "string"
       \/ Trim(message.o.content.s) = <<>>
    THEN <<"Message content cannot be empty">>
    ELSE Push(Len(message.o.content.s) > MaxContentLength,
              "Message content exceeds maximum length of 5000 characters")

validateChatMessageRecord(message) ==
    IF NotObject(message)
    THEN Rejected("Message must be an object")
    ELSE ValidationResult(
             Push(NotUUID(message.o.id), "Invalid UUID format for id")
          \o Push(NotUUID(message.o.sender_id), "Invalid UUID format for sender_id")
          \o Push(NotUUID(message.o.receiver_id), "Invalid UUID format for receiver_id")
          \o Push(SameParties(message), "Sender and receiver cannot be the same user")
          \o ContentErrors(message)
          \o Push(~Truthy(message.o.message_type) \/ ~isValidMessageType(message.o.message_type),
                  "Invalid message type")
          \o Push(NotISODate(message.o.created_at), "Invalid date format for created_at")
          \o Push(/\ ~StrictEquals(message.o.read_at, JSNull)
                  /\ (TypeOf(message.o.read_at) # "string" \/ ~isValidISODate(message.o.read_at.s)),
                  "Invalid date format for read_at"))

(***************************************************************************)
(* The validators of real-time messages.  A payload object is modelled     *)
(* with the properties of the chat and of the game-move payload; one it    *)
(* lacks reads as undefined.                                               *)
(***************************************************************************)
\* !payload.content || typeof payload.content !== "string"
\*                  || payload.content.trim() === ""
ChatContentErrors(payload) ==
    Push(\/ ~Truthy(payload.o.content)
         \/ TypeOf(payload.o.content) # "string"
         \/ Trim(payload.o.content.s) = <<>>,
         "Content must be a non-empty string")

validateChatPayload(payload) ==
    IF NotObject(payload)
    THEN Rejected("Chat payload must be an object")
    ELSE ValidationResult(
             ChatContentErrors(payload)
          \o Push(NotUUID(payload.o.receiverId), "Invalid UUID format for receiverId")
          \o Push(~Truthy(payload.o.messageType) \/ ~isValidMessageType(payload.o.messageType),
                  "Invalid message type"))

\* typeof moveData.position !== "number" || moveData.position < 0
\*                                       || moveData.position > 8
PositionOutOfRange(position) ==
    TypeOf(position) # "number" \/ LessThan(position, 0) \/ GreaterThan(position, 8)

\* The block under if (payload.gameType === "tic_tac_toe" && payload.moveData).
TicTacToeMoveErrors(moveData) ==
       Push(PositionOutOfRange(moveData.o.position),
            "Tic-tac-toe position must be a number between 0 and 8")
    \o Push(NotUUID(moveData.o.player), "Invalid UUID format for player")
    \o Push(~isArray(moveData.o.boardState) \/ Len(moveData.o.boardState.cells) # 9,
            "Board state must be an array of 9 elements")

validateGameMovePayload(payload) ==
    IF NotObject(payload)
    THEN Rejected("Game move payload must be an object")
    ELSE ValidationResult(
             Push(NotUUID(payload.o.sessionId), "Invalid UUID format for sessionId")
          \o Push(~Truthy(payload.o.gameType) \/ ~isValidGameType(payload.o.gameType),
                  "Invalid game type")
          \o Push(NotObject(payload.o.moveData), "Move data must be an object")
          \o (IF /\ StrictEquals(payload.o.gameType, Str(<<"tic_tac_toe">>))
                 /\ Truthy(payload.o.moveData)
              THEN TicTacToeMoveErrors(payload.o.moveData)
              ELSE <<>>))

\* The checks of validateRealtimeMessage, each as the errors it appends.
TypeErrors(message) ==
    Push(~Truthy(message.o.type) \/ ~isValidRealtimeMessageType(message.o.type),
         "Invalid message type")

PayloadErrors(message) ==
    Push(NotObject(message.o.payload), "Payload must be an object")

UserIdErrors(message) ==
    Push(NotUUID(message.o.userId), "Invalid UUID format for userId")

TimestampErrors(message) ==
    Push(NotISODate(message.o.timestamp), "Invalid date format for timestamp")

\* A variant that asks for a messageId.
MessageIdErrors_required(message) ==
    Push(NotUUID(message.o.messageId), "Invalid UUID format for messageId")

MessageIdErrors(message) ==
    Push(/\ Truthy(message.o.messageId)
         /\ (TypeOf(message.o.messageId) # "string" \/ ~isValidUUID(message.o.messageId.s)),
         "Invalid UUID format for messageId")

\* A variant that returns at the first failed check.
EnvelopeErrors_failFast(message) ==
    CASE TypeErrors(message) # <<>> -> TypeErrors(message)
      [] PayloadErrors(message) # <<>> -> PayloadErrors(message)
      [] UserIdErrors(message) # <<>> -> UserIdErrors(message)
      [] TimestampErrors(message) # <<>> -> TimestampErrors(message)
      [] OTHER -> MessageIdErrors(message)

\* The five `if (...) errors.push(...)` statements in a row.
EnvelopeErrors(message) ==
       TypeErrors(message)
    \o PayloadErrors(message)
    \o UserIdErrors(message)
    \o TimestampErrors(message)
    \o MessageIdErrors(message)

\* A variant that goes on to the checks of the payload of a chat or game-move message.
validateRealtimeMessage_withPayloadChecks(message) ==
    IF NotObject(message)
    THEN Rejected("Message must be an object")
    ELSE ValidationResult(
             EnvelopeErrors(message)
          \o (CASE ~NotObject(message.o.payload) /\ message.o.type = Str(<<"chat">>) ->
                       validateChatPayload(message.o.payload).errors
                 [] ~NotObject(message.o.payload) /\ message.o.type = Str(<<"game_move">>) ->
                       validateGameMovePayload(message.o.payload).errors
                 [] OTHER -> <<>>))

validateRealtimeMessage(message) ==
    IF NotObject(message)
    THEN Rejected("Message must be an object")
    ELSE ValidationResult(EnvelopeErrors(message))

(***************************************************************************)
(* The values the validators are called with: the fixtures of the tests    *)
(* (unified_types_test.ts) and values that miss each check.                *)
(***************************************************************************)
\* "123e4567-e89b-12d3-a456-426614174" and the three digits that end it
UUIDStem ==
    << "1", "2", "3", "e", "4", "5", "6", "7", "-", "e", "8", "9", "b", "-",
       "1", "2", "d", "3", "-", "a", "4", "5", "6", "-",
       "4", "2", "6", "6", "1", "4", "1", "7", "4" >>
UUID(a, b, c) == Str(UUIDStem \o <<a, b, c>>)
User1 == UUID("0", "0", "0")
User2 == UUID("0", "0", "2")
OtherUser == UUID("9", "9", "9")
RecordId == UUID("0", "0", "1")
SessionId == UUID("0", "0", "3")
MessageId == UUID("0", "0", "4")

\* "invalid-uuid", and User1 with the version digit 0
InvalidUUID == Str(<<"i", "n", "v", "a", "l", "i", "d", "-", "u", "u", "i", "d">>)
VersionZeroUUID == Str([User1.s EXCEPT ![15] = "0"])
EmptyString == Str(<<>>)

\* "2025-06-05T12:00:00.000Z", "2025-06-05" and "not-a-date"
ValidDate == Str(<<"2025-06-05", "T", "12:00:00", ".000", "Z">>)
DateOnly == Str(<<"2025-06-05">>)
NotADate == Str(<<"not-a-date">>)

Word(w) == Str(<<w>>)

PartyIds == {User1, User2, InvalidUUID, JSNull, JSUndefined}
RecordIds == {RecordId, VersionZeroUUID}
CreatedDates == {ValidDate, NotADate}
OptionalDates == {JSNull, JSUndefined, ValidDate, DateOnly, NotADate, EmptyString}

Friendships ==
    [ id : RecordIds,
      user1_id : PartyIds,
      user2_id : PartyIds,
      status : {Word("pending"), Word("accepted"), Word("blocked"),
                Word("invalid_status"), JSUndefined},
      created_at : CreatedDates,
      accepted_at : OptionalDates ]

GameSessions ==
    [ id : RecordIds,
      player1_id : PartyIds,
      player2_id : PartyIds,
      game_type : {Word("tic_tac_toe"), Word("invalid_game")},
      status : {Word("invited"), Word("accepted"), Word("in_progress"),
                Word("completed"), Word("invalid_status")},
      winner_id : {JSNull, JSUndefined, User1, User2, OtherUser, InvalidUUID, EmptyString},
      created_at : {ValidDate},
      updated_at : {ValidDate},
      completed_at : OptionalDates \ {DateOnly} ]

\* Bounds of the message contents: short contents have at most MaxShortContent
\* characters, long ones are within LengthMargin of MaxContentLength.
MaxShortContent == 2
LengthMargin == 1

ContentLengths ==
    0..MaxShortContent
        \cup (MaxContentLength - LengthMargin)..(MaxContentLength + LengthMargin)

\* n times "x"; n spaces; n - 1 spaces and an "x"
Filled(n) == Str([i \in 1..n |-> "x"])
Blank(n) == Str([i \in 1..n |-> Space])
Indented(n) == Str([i \in 1..n |-> IF i = n THEN "x" ELSE Space])

ShortContents == UNION {{Filled(n), Blank(n), Indented(n)} : n \in 0..MaxShortContent}
Contents == UNION {{Filled(n), Blank(n), Indented(n)} : n \in ContentLengths}

ChatMessagesByParty ==
    [ id : {MessageId, VersionZeroUUID},
      sender_id : PartyIds,
      receiver_id : PartyIds,
      content : ShortContents \cup {JSNull},
      message_type : {Word("text"), Word("invalid_type")},
      created_at : CreatedDates,
      read_at : {JSNull, ValidDate, NotADate} ]

\* Every field but the content as in validChatMessageRecord.
ChatMessagesByContent ==
    [ id : {MessageId},
      sender_id : {User1},
      receiver_id : {User2},
      content : Contents \cup {JSNull, JSUndefined, Num(MaxContentLength)},
      message_type : {Word("text"), Word("image"), Word("system")},
      created_at : {ValidDate},
      read_at : {JSNull, ValidDate} ]

(***************************************************************************)
(* The record validators as a specification: a record is handed to its     *)
(* validator, which returns its result.                                    *)
(***************************************************************************)
Subject(validator, value) == [validator |-> validator, value |-> value]

InitRecords ==
    /\ maps = (ConnectionsRef :> {})
    /\ held = {}
    /\ attempts = <<>>
    /\ ret = Call("new", Undefined, Undefined, Undefined)
    /\ displaced = {}
    /\ report = NoReport
    /\ connection_links = {}
    /\ friendships = <<>>
    /\ accepting = <<>>
    /\ \/ \E friendship \in Friendships :
              subject = Subject("validateFriendship", Object(friendship))
       \/ \E session \in GameSessions :
              subject = Subject("validateGameSession", Object(session))
       \/ \E message \in ChatMessagesByParty \cup ChatMessagesByContent :
              subject = Subject("validateChatMessageRecord", Object(message))

\* The call of `validator` on the subject returns `result`.
Returns(validator, result) ==
    /\ subject.validator = validator
    /\ ~report.returned
    /\ report' = result
    /\ UNCHANGED <<maps, held, attempts, ret, displaced, subject, linked>>

ValidateFriendship == Returns("validateFriendship", validateFriendship(subject.value))
ValidateGameSession == Returns("validateGameSession", validateGameSession(subject.value))
ValidateChatMessageRecord ==
    Returns("validateChatMessageRecord", validateChatMessageRecord(subject.value))

NextRecords ==
    \/ ValidateFriendship
    \/ ValidateGameSession
    \/ ValidateChatMessageRecord

SpecRecords == InitRecords /\ [][NextRecords]_vars

(***************************************************************************)
(* Properties of the record validators.                                    *)
(***************************************************************************)
\* The validator named `validator` has returned for the subject.
Returned(validator) == subject.validator = validator /\ report.returned

\* An optional field is absent when it is null or undefined, and present when
\* it is a string of at least one character.
Absent(v) == v \in {JSNull, JSUndefined}
Present(v) == v.t = "string" /\ v.s # <<>>

AcceptedMessage == "Accepted friendships must have accepted_at timestamp"

\* C14: a friendship with status accepted and no accepted_at is invalid, and a
\* friendship with status pending or blocked that carries an accepted_at is
\* invalid too.
C14_AcceptedInstantIff ==
    Returned("validateFriendship") =>
        LET friendship == subject.value.o
        IN  /\ friendship.status = Word("accepted") /\ Absent(friendship.accepted_at)
                => ~report.isValid /\ Reports(report, AcceptedMessage)
            /\ friendship.status \in {Word("pending"), Word("blocked")}
                   /\ Present(friendship.accepted_at)
                => ~report.isValid

CompletedMessage == "Completed sessions must have completed_at timestamp"
NotCompletedMessage == "Non-completed sessions must not have completed_at timestamp"

\* C15: for every status of a game session, a session with status completed and
\* no completed_at is invalid and reports the completed_at error, and a session
\* with any other status that carries a completed_at is invalid and reports the
\* converse error.
C15_CompletionInstantIff ==
    Returned("validateGameSession") =>
        LET session == subject.value.o
        IN  session.status \in {Word("invited"), Word("accepted"),
                                Word("in_progress"), Word("completed")}
                => /\ session.status = Word("completed") /\ Absent(session.completed_at)
                       => ~report.isValid /\ Reports(report, CompletedMessage)
                   /\ session.status # Word("completed") /\ Present(session.completed_at)
                       => ~report.isValid /\ Reports(report, NotCompletedMessage)

C15_Witness ==
    /\ Returned("validateGameSession")
    /\ subject.value.o.status = Word("in_progress")
    /\ subject.value.o.completed_at = ValidDate
    /\ report.errors = <<NotCompletedMessage>>

WinnerMessage == "Winner must be one of the players"

\* C16: a valid game session has no winner or has one of its two players as the
\* winner, and a session reports the winner error exactly when its winner is
\* present and differs from both players.
C16_WinnerIsPlayer ==
    Returned("validateGameSession") =>
        LET session == subject.value.o
        IN  /\ report.isValid
                => \/ session.winner_id = JSNull
                   \/ session.winner_id = session.player1_id
                   \/ session.winner_id = session.player2_id
            /\ Present(session.winner_id)
                   /\ session.winner_id # session.player1_id
                   /\ session.winner_id # session.player2_id
                => ~report.isValid /\ Reports(report, WinnerMessage)
            /\ Reports(report, WinnerMessage)
                => /\ Present(session.winner_id)
                   /\ session.winner_id # session.player1_id
                   /\ session.winner_id # session.player2_id

C16_Witness ==
    /\ Returned("validateGameSession")
    /\ subject.value.o.winner_id = OtherUser
    /\ subject.value.o.player1_id = User1
    /\ subject.value.o.player2_id = User2
    /\ report.errors = <<WinnerMessage>>

\* C17: a friendship whose two users are the same value, a game session whose two
\* players are the same value and a chat message whose sender and receiver are
\* the same value are invalid, each with its own error, whatever the other
\* fields are.
C17_NoSelfRelationship ==
    /\ Returned("validateFriendship")
           /\ subject.value.o.user1_id = subject.value.o.user2_id
        => ~report.isValid /\ Reports(report, "Users cannot be friends with themselves")
    /\ Returned("validateGameSession")
           /\ subject.value.o.player1_id = subject.value.o.player2_id
        => ~report.isValid /\ Reports(report, "Players cannot play against themselves")
    /\ Returned("validateChatMessageRecord")
           /\ subject.value.o.sender_id = subject.value.o.receiver_id
        => ~report.isValid /\ Reports(report, "Sender and receiver cannot be the same user")

C17_Witness ==
    /\ Returned("validateFriendship")
    /\ subject.value.o.user1_id = User1
    /\ subject.value.o.user2_id = User1
    /\ report.errors = <<"Users cannot be friends with themselves">>

EmptyMessage == "Message content cannot be empty"
TooLongMessage == "Message content exceeds maximum length of 5000 characters"

\* The content of the chat message is a string of only whitespace.
BlankContent(content) ==
    content.t = "string" /\ \A i \in 1..Len(content.s) : content.s[i] = Space

\* C18 (as claimed): with every other field valid, a chat message whose content
\* has 1 to 5000 characters is valid, and one whose content has 5001 characters
\* or more is invalid and reports the maximum-length error.
C18_LengthBoundExact ==
    Returned("validateChatMessageRecord") /\ subject.value.o \in ChatMessagesByContent
           /\ subject.value.o.content.t = "string"
        => LET length == Len(subject.value.o.content.s)
           IN  /\ length \in 1..MaxContentLength => report.isValid
               /\ length > MaxContentLength
                      => ~report.isValid /\ Reports(report, TooLongMessage)

\* C18 (amended): with every other field valid, a chat message whose content is
\* not only whitespace is valid when the content has 1 to 5000 characters and is
\* invalid with exactly the maximum-length error when it has 5001 or more; a
\* content of only whitespace, of any length, is invalid with exactly the
\* empty-content error.
C18_LengthBoundOfNonBlank ==
    Returned("validateChatMessageRecord") /\ subject.value.o \in ChatMessagesByContent
           /\ subject.value.o.content.t = "string"
        => LET content == subject.value.o.content
           IN  IF BlankContent(content)
               THEN report.errors = <<EmptyMessage>>
               ELSE /\ Len(content.s) \in 1..MaxContentLength => report.isValid
                    /\ Len(content.s) > MaxContentLength
                           => report.errors = <<TooLongMessage>>

C18_Witness ==
    /\ Returned("validateChatMessageRecord")
    /\ subject.value.o \in ChatMessagesByContent
    /\ subject.value.o.content = Filled(MaxContentLength + 1)
    /\ report.errors = <<TooLongMessage>>

(***************************************************************************)
(* The real-time messages and payloads the validators are called with.     *)
(***************************************************************************)
\* Positions are tried up to PositionMargin beyond either end of the board.
PositionMargin == 2

\* "Hello"
Hello == Str(<<"H", "e", "l", "l", "o">>)

\* A board of n cells, the cell `at` marked "X" (validTicTacToeMoveData has 4 marked).
BoardOf(n, at) == Array([i \in 1..n |-> IF i = at THEN Str(<<"X">>) ELSE EmptyString])
NoBoard == WithElements(JSUndefined, <<>>)

Positions ==
    {Num(n) : n \in (0 - PositionMargin)..(8 + PositionMargin)}
        \cup {NumHalf(n) : n \in (0 - PositionMargin)..(8 + PositionMargin)}
        \cup {Num(100), NumNaN, Str(<<"4">>), JSNull, JSUndefined}

MoveDataProperties ==
    [ position : Positions,
      player : {User1, InvalidUUID},
      boardState : {BoardOf(9, 5), BoardOf(2, 1), NoBoard} ]

NoMoveDataProperties ==
    [position |-> JSUndefined, player |-> JSUndefined, boardState |-> NoBoard]

\* moveData: an object, or a value that is no object
MoveDatas ==
    {Object(o) : o \in MoveDataProperties}
        \cup {WithProperties(v, NoMoveDataProperties) : v \in {JSUndefined, JSNull, Hello}}

NoMoveData == WithProperties(JSUndefined, NoMoveDataProperties)

ChatPayloads ==
    [ content : {Hello, EmptyString, Blank(1), Num(5), JSUndefined},
      receiverId : {User2, InvalidUUID, JSUndefined},
      messageType : {Word("text"), Word("image"), Word("system"),
                     Word("invalid_type"), JSUndefined},
      sessionId : {JSUndefined},
      gameType : {JSUndefined},
      moveData : {NoMoveData} ]

GameMovePayloads ==
    [ content : {JSUndefined},
      receiverId : {JSUndefined},
      messageType : {JSUndefined},
      sessionId : {SessionId, InvalidUUID},
      gameType : {Word("tic_tac_toe"), Word("chess"), JSUndefined},
      moveData : MoveDatas ]

NoPayloadProperties ==
    [ content |-> JSUndefined, receiverId |-> JSUndefined, messageType |-> JSUndefined,
      sessionId |-> JSUndefined, gameType |-> JSUndefined, moveData |-> NoMoveData ]

\* The payloads of the messages: every chat payload, the game-move payloads with
\* a whole position and the fixture's player and board, and values that are no
\* object ("Hello" stands for the test's "not an object").
MessagePayloads ==
    {Object(o) : o \in ChatPayloads}
        \cup {Object(o) : o \in {p \in GameMovePayloads :
                                     /\ p.moveData.t = "object"
                                     /\ p.moveData.o.position \in {Num(4), Num(9)}
                                     /\ p.moveData.o.player = User1
                                     /\ p.moveData.o.boardState = BoardOf(9, 5)}}
        \cup {Object(NoPayloadProperties)}
        \cup {WithProperties(v, NoPayloadProperties) : v \in {JSUndefined, JSNull, Hello}}

RealtimeMessages ==
    [ type : {Word("chat"), Word("game_move"), Word("invalid_type"), JSUndefined},
      payload : MessagePayloads,
      userId : {User1, InvalidUUID},
      timestamp : {ValidDate, NotADate},
      messageId : {MessageId, InvalidUUID, EmptyString, JSUndefined} ]

(***************************************************************************)
(* The message validators as a specification.                              *)
(***************************************************************************)
InitMessages ==
    /\ maps = (ConnectionsRef :> {})
    /\ held = {}
    /\ attempts = <<>>
    /\ ret = Call("new", Undefined, Undefined, Undefined)
    /\ displaced = {}
    /\ report = NoReport
    /\ connection_links = {}
    /\ friendships = <<>>
    /\ accepting = <<>>
    /\ \/ \E message \in RealtimeMessages :
              subject = Subject("validateRealtimeMessage", Object(message))
       \/ \E payload \in ChatPayloads :
              subject = Subject("validateChatPayload", Object(payload))
       \/ \E payload \in GameMovePayloads :
              subject = Subject("validateGameMovePayload", Object(payload))

ValidateRealtimeMessage ==
    Returns("validateRealtimeMessage", validateRealtimeMessage(subject.value))
ValidateChatPayload == Returns("validateChatPayload", validateChatPayload(subject.value))
ValidateGameMovePayload ==
    Returns("validateGameMovePayload", validateGameMovePayload(subject.value))

NextMessages ==
    \/ ValidateRealtimeMessage
    \/ ValidateChatPayload
    \/ ValidateGameMovePayload

SpecMessages == InitMessages /\ [][NextMessages]_vars

(***************************************************************************)
(* Properties of the message validators.                                   *)
(***************************************************************************)
\* The value is an object as the validators understand it.
ObjectShaped(v) == v.t = "object"

KindViolated(message) ==
    message.type \notin
        {Word(kind) : kind \in {"chat", "game_move", "game_invite", "game_accept",
                                "game_complete", "friend_request", "friend_accept",
                                "presence_update", "typing_indicator", "connection_status"}}
PayloadViolated(message) == ~ObjectShaped(message.payload)
UserIdViolated(message) == ~(message.userId.t = "string" /\ isValidUUID(message.userId.s))
TimestampViolated(message) ==
    ~(message.timestamp.t = "string" /\ isValidISODate(message.timestamp.s))
MessageIdViolated(message) ==
    Present(message.messageId) /\ ~isValidUUID(message.messageId.s)

\* How many of the five checks the message fails.
ViolationCount(message) ==
    Cardinality({check \in {"type", "payload", "userId", "timestamp", "messageId"} :
        CASE check = "type" -> KindViolated(message)
          [] check = "payload" -> PayloadViolated(message)
          [] check = "userId" -> UserIdViolated(message)
          [] check = "timestamp" -> TimestampViolated(message)
          [] OTHER -> MessageIdViolated(message)})

PositionMessage == "Tic-tac-toe position must be a number between 0 and 8"

\* Every field of the game-move payload but the position is as in
\* validGameMovePayload.
FixtureMove(payload) ==
    /\ payload.sessionId = SessionId
    /\ payload.gameType = Word("tic_tac_toe")
    /\ payload.moveData.t = "object"
    /\ payload.moveData.o.player = User1
    /\ payload.moveData.o.boardState = BoardOf(9, 5)

\* C19: with every other field valid, a game-move payload is valid exactly when
\* its position is a whole number from 0 to 8, and any other position is
\* reported with the position error.
C19_PositionIntegerInRange ==
    Returned("validateGameMovePayload") /\ FixtureMove(subject.value.o) =>
        LET position == subject.value.o.moveData.o.position
            inRange == position.t = "number" /\ position.f = "int" /\ position.n \in 0..8
        IN  /\ report.isValid <=> inRange
            /\ ~inRange => Reports(report, PositionMessage)

(***************************************************************************)
(* The board validator as a specification: every board of 9 cells over     *)
(* "X", "O" and "", every such board up to BoardMargin cells shorter or    *)
(* longer, boards of 9 cells with one cell of another value, and values    *)
(* that are no array.                                                      *)
(***************************************************************************)
BoardMargin == 1

Marks == {Str(<<"X">>), Str(<<"O">>), EmptyString}

\* "Z", "x", null and 0
OtherCells == {Str(<<"Z">>), Str(<<"x">>), JSNull, Num(0)}

\* "XOXOXOXOX", null and undefined
NotBoards ==
    {WithElements(v, <<>>) :
         v \in {Str([i \in 1..9 |-> IF i % 2 = 1 THEN "X" ELSE "O"]), JSNull, JSUndefined}}

\* The boards of the tests 'board state length' and 'board state values',
\* tried with a malformed session_id or current_turn as well.
TestBoards ==
    { BoardOf(9, 0), BoardOf(9, 5),
      Array(<<Str(<<"X">>), Str(<<"O">>)>>),
      Array(<<Str(<<"X">>), Str(<<"O">>), Str(<<"Z">>), EmptyString, EmptyString,
              EmptyString, EmptyString, EmptyString, EmptyString>>) }

TestGames ==
    [ session_id : {SessionId, InvalidUUID, JSUndefined},
      board_state : TestBoards,
      current_turn : {User1, InvalidUUID, JSNull} ]

\* validTicTacToeGame with another board
GameWith(board) ==
    Object([session_id |-> SessionId, board_state |-> board, current_turn |-> User1])

InitBoard ==
    /\ maps = (ConnectionsRef :> {})
    /\ held = {}
    /\ attempts = <<>>
    /\ ret = Call("new", Undefined, Undefined, Undefined)
    /\ displaced = {}
    /\ report = NoReport
    /\ connection_links = {}
    /\ friendships = <<>>
    /\ accepting = <<>>
    /\ \/ \E n \in (9 - BoardMargin)..(9 + BoardMargin) :
              \E cells \in [1..n -> Marks] :
                  subject = Subject("validateTicTacToeGame", GameWith(Array(cells)))
       \/ \E cells \in [1..9 -> {Str(<<"X">>), EmptyString}] :
              \E i \in 1..9, other \in OtherCells :
                  subject = Subject("validateTicTacToeGame",
                                    GameWith(Array([cells EXCEPT ![i] = other])))
       \/ \E board \in NotBoards :
              subject = Subject("validateTicTacToeGame", GameWith(board))
       \/ \E game \in TestGames :
              subject = Subject("validateTicTacToeGame", Object(game))

ValidateTicTacToeGame ==
    Returns("validateTicTacToeGame", validateTicTacToeGame(subject.value))

NextBoard == ValidateTicTacToeGame

SpecBoard == InitBoard /\ [][NextBoard]_vars

\* C20: with a well-formed session_id and current_turn, a game is valid exactly
\* when its board_state is an array of 9 cells each of which is "X", "O" or "".
C20_BoardAcceptedExactly ==
    Returned("validateTicTacToeGame")
           /\ subject.value.o.session_id = SessionId
           /\ subject.value.o.current_turn = User1
        => LET board == subject.value.o.board_state
           IN  report.isValid
                   <=> /\ board.t = "array"
                       /\ Len(board.cells) = 9
                       /\ \A i \in 1..Len(board.cells) : board.cells[i] \in Marks

C20_Witness ==
    /\ Returned("validateTicTacToeGame")
    /\ subject.value.o.session_id = SessionId
    /\ subject.value.o.current_turn = User1
    /\ Len(subject.value.o.board_state.cells) = 9
    /\ subject.value.o.board_state.cells[3] = Str(<<"Z">>)
    /\ report.errors = <<"Board positions must be 'X', 'O', or empty string">>

(***************************************************************************)
(* validateUserProfile and the format predicate it alone uses.             *)
(***************************************************************************)
\* /^[^\s@]+@[^\s@]+\.[^\s@]+$/ tested on the characters of `email`
isValidEmail(email) ==
    \E at \in 1..Len(email), dot \in 1..Len(email) :
        /\ email[at] = "@"
        /\ email[dot] = "."
        /\ 1 < at /\ at + 1 < dot /\ dot < Len(email)
        /\ \A i \in 1..Len(email) : email[i] # Space /\ (email[i] = "@" => i = at)

validateUserProfile(profile) ==
    IF NotObject(profile)
    THEN Rejected("Profile must be an object")
    ELSE ValidationResult(
             Push(NotUUID(profile.o.id), "Invalid UUID format for id")
          \o Push(\/ ~Truthy(profile.o.email)
                  \/ TypeOf(profile.o.email) # "string"
                  \/ ~isValidEmail(profile.o.email.s),
                  "Invalid email format")
          \o Push(\/ ~Truthy(profile.o.display_name)
                  \/ TypeOf(profile.o.display_name) # "string"
                  \/ Trim(profile.o.display_name.s) = <<>>,
                  "Display name cannot be empty")
          \o Push(/\ ~StrictEquals(profile.o.avatar_url, JSNull)
                  /\ TypeOf(profile.o.avatar_url) # "string",
                  "Avatar URL must be a string or null")
          \o Push(NotISODate(profile.o.created_at), "Invalid date format for created_at")
          \o Push(NotISODate(profile.o.updated_at), "Invalid date format for updated_at"))

(***************************************************************************)
(* ensureFriendshipOrdering.  `<` on two strings compares them code unit   *)
(* by code unit; CodeUnitOrder lists the characters of the identifiers in  *)
(* the order of their code units.                                          *)
(***************************************************************************)
CodeUnitOrder ==
    <<"-", "0", "1", "2", "3", "4", "5", "6", "7", "8", "9",
      "A", "B", "C", "D", "E", "F",
      "a", "b", "c", "d", "e", "f", "i", "l", "n", "u", "v">>

CodeUnit(c) == CHOOSE i \in 1..Len(CodeUnitOrder) : CodeUnitOrder[i] = c

\* a < b for two strings: a proper prefix is smaller; otherwise the first
\* position where they differ decides
StringLessThan(a, b) ==
    LET n == IF Len(a) < Len(b) THEN Len(a) ELSE Len(b)
        differ == {i \in 1..n : a[i] # b[i]}
    IN  IF differ = {}
        THEN Len(a) < Len(b)
        ELSE LET k == CHOOSE i \in differ : \A j \in differ : i <= j
             IN  CodeUnit(a[k]) < CodeUnit(b[k])

\* A variant that returns the pair as it was given.
ensureFriendshipOrdering_asGiven(user1Id, user2Id) == <<user1Id, user2Id>>

\* return user1Id < user2Id ? [user1Id, user2Id] : [user2Id, user1Id]
ensureFriendshipOrdering(user1Id, user2Id) ==
    IF StringLessThan(user1Id.s, user2Id.s)
    THEN <<user1Id, user2Id>>
    ELSE <<user2Id, user1Id>>

(***************************************************************************)
(* MessageTransformer.  A property an object literal does not write reads  *)
(* as undefined (messageId of the move message).                           *)
(***************************************************************************)
chatRecordToRealtime(record) ==
    Object([ type      |-> Str(<<"chat">>),
             payload   |-> Object([ content     |-> record.o.content,
                                    receiverId  |-> record.o.receiver_id,
                                    messageType |-> record.o.message_type ]),
             userId    |-> record.o.sender_id,
             timestamp |-> record.o.created_at,
             messageId |-> record.o.id ])

\* A variant that takes the receiver for the sender.
realtimeChatToRecord_receiverAsSender(message, generatedId) ==
    Object([ id           |-> generatedId,
             sender_id    |-> message.o.payload.o.receiverId,
             receiver_id  |-> message.o.payload.o.receiverId,
             content      |-> message.o.payload.o.content,
             message_type |-> message.o.payload.o.messageType ])

realtimeChatToRecord(message, generatedId) ==
    Object([ id           |-> generatedId,
             sender_id    |-> message.o.userId,
             receiver_id  |-> message.o.payload.o.receiverId,
             content      |-> message.o.payload.o.content,
             message_type |-> message.o.payload.o.messageType ])

gameSessionToRealtimeInvite(session) ==
    Object([ type      |-> Str(<<"game_invite">>),
             payload   |-> Object([ invitedUserId |-> session.o.player2_id,
                                    gameType      |-> session.o.game_type,
                                    sessionId     |-> session.o.id ]),
             userId    |-> session.o.player1_id,
             timestamp |-> session.o.created_at,
             messageId |-> session.o.id ])

\* A variant that sends an empty board.
ticTacToeGameToRealtimeMove_emptyBoard(game, lastMove, now) ==
    Object([ type      |-> Str(<<"game_move">>),
             payload   |-> Object([ sessionId |-> game.o.session_id,
                                    gameType  |-> Str(<<"tic_tac_toe">>),
                                    moveData  |-> Object([ position   |-> lastMove,
                                                           player     |-> game.o.current_turn,
                                                           boardState |-> BoardOf(9, 0) ]) ]),
             userId    |-> game.o.current_turn,
             timestamp |-> Str(toISOString(now)),
             messageId |-> JSUndefined ])

\* `now` is the instant new Date() reads.
ticTacToeGameToRealtimeMove(game, lastMove, now) ==
    Object([ type      |-> Str(<<"game_move">>),
             payload   |-> Object([ sessionId |-> game.o.session_id,
                                    gameType  |-> Str(<<"tic_tac_toe">>),
                                    moveData  |-> Object([ position   |-> lastMove,
                                                           player     |-> game.o.current_turn,
                                                           boardState |-> game.o.board_state ]) ]),
             userId    |-> game.o.current_turn,
             timestamp |-> Str(toISOString(now)),
             messageId |-> JSUndefined ])

\* A variant that stamps the request with the instant of acceptance.
friendshipToRealtimeRequest_acceptedAt(friendship, requesterProfile) ==
    Object([ type      |-> Str(<<"friend_request">>),
             payload   |-> Object([ targetUserId  |-> friendship.o.user2_id,
                                    requesterId   |-> friendship.o.user1_id,
                                    requesterName |-> requesterProfile.o.display_name ]),
             userId    |-> friendship.o.user1_id,
             timestamp |-> friendship.o.accepted_at,
             messageId |-> friendship.o.id ])

friendshipToRealtimeRequest(friendship, requesterProfile) ==
    Object([ type      |-> Str(<<"friend_request">>),
             payload   |-> Object([ targetUserId  |-> friendship.o.user2_id,
                                    requesterId   |-> friendship.o.user1_id,
                                    requesterName |-> requesterProfile.o.display_name ]),
             userId    |-> friendship.o.user1_id,
             timestamp |-> friendship.o.created_at,
             messageId |-> friendship.o.id ])

(***************************************************************************)
(* The transformer and ensureFriendshipOrdering as a specification: a      *)
(* function is handed its arguments and returns its value.                 *)
(***************************************************************************)
\* "test@example.com", "invalid-email" and "Test User"
TestEmail ==
    Str(<<"t", "e", "s", "t", "@", "e", "x", "a", "m", "p", "l", "e", ".", "c", "o", "m">>)
InvalidEmail ==
    Str(<<"i", "n", "v", "a", "l", "i", "d", "-", "e", "m", "a", "i", "l">>)
TestUser == Str(<<"T", "e", "s", "t", Space, "U", "s", "e", "r">>)

UserProfiles ==
    [ id : {User1, User2, OtherUser, InvalidUUID},
      email : {TestEmail, InvalidEmail},
      display_name : {TestUser, Blank(1), EmptyString},
      avatar_url : {JSNull},
      created_at : {ValidDate},
      updated_at : {ValidDate, NotADate} ]

\* The generated id of the tests, "123e4567-e89b-12d3-a456-426614174005"
GeneratedId == UUID("0", "0", "5")

\* Chat messages as they arrive: the payload of the fixture, of a sender who
\* writes to itself, and of contents around the longest a record may hold.
ChatEnvelopes ==
    [ type : {Word("chat"), Word("invalid_type")},
      payload : {Object(p) :
                    p \in [ content : {Hello, EmptyString, Blank(1),
                                       Filled(MaxContentLength),
                                       Filled(MaxContentLength + LengthMargin)},
                            receiverId : {User1, User2, InvalidUUID},
                            messageType : {Word("text"), Word("image"),
                                           Word("invalid_type")} ]},
      userId : {User1, User2, InvalidUUID},
      timestamp : {ValidDate, NotADate},
      messageId : {MessageId, JSUndefined} ]

\* The instants the clock may show.
Instants ==
    {Instant(day, clock, ms) : day \in CalendarDays, clock \in ClockTimes,
                               ms \in {".000", ".500"}}

\* The same identifier written in capitals, and the first 35 characters of one.
User1InCapitals == Str([i \in 1..36 |-> IF User1.s[i] = "e" THEN "E" ELSE User1.s[i]])
User1Cut == Str(SubSeq(User1.s, 1, 35))

Identifiers == {User1, User2, OtherUser, User1InCapitals, User1Cut, InvalidUUID, EmptyString}

\* The value a function returned.
Output(value) == [returned |-> TRUE, value |-> value]

InitTransform ==
    /\ maps = (ConnectionsRef :> {})
    /\ held = {}
    /\ attempts = <<>>
    /\ ret = Call("new", Undefined, Undefined, Undefined)
    /\ displaced = {}
    /\ report = NoReport
    /\ connection_links = {}
    /\ friendships = <<>>
    /\ accepting = <<>>
    /\ \/ \E record \in ChatMessagesByParty \cup ChatMessagesByContent :
              subject = Subject("chatRecordToRealtime", Object(record))
       \/ \E message \in ChatEnvelopes, generatedId \in {GeneratedId, InvalidUUID} :
              subject = Subject("realtimeChatToRecord",
                                [message |-> Object(message), generatedId |-> generatedId])
       \/ \E session \in GameSessions :
              subject = Subject("gameSessionToRealtimeInvite", Object(session))
       \/ \E game \in TestGames, lastMove \in Positions, now \in Instants :
              subject = Subject("ticTacToeGameToRealtimeMove",
                                [game |-> Object(game), lastMove |-> lastMove, now |-> now])
       \/ \E friendship \in Friendships, requesterProfile \in UserProfiles :
              subject = Subject("friendshipToRealtimeRequest",
                                [friendship |-> Object(friendship),
                                 requesterProfile |-> Object(requesterProfile)])
       \/ \E user1Id \in Identifiers, user2Id \in Identifiers :
              subject = Subject("ensureFriendshipOrdering",
                                [user1Id |-> user1Id, user2Id |-> user2Id])

ChatRecordToRealtime ==
    Returns("chatRecordToRealtime", Output(chatRecordToRealtime(subject.value)))

RealtimeChatToRecord ==
    Returns("realtimeChatToRecord",
            Output(realtimeChatToRecord(subject.value.message, subject.value.generatedId)))

GameSessionToRealtimeInvite ==
    Returns("gameSessionToRealtimeInvite", Output(gameSessionToRealtimeInvite(subject.value)))

TicTacToeGameToRealtimeMove ==
    Returns("ticTacToeGameToRealtimeMove",
            Output(ticTacToeGameToRealtimeMove(subject.value.game, subject.value.lastMove,
                                               subject.value.now)))

FriendshipToRealtimeRequest ==
    Returns("friendshipToRealtimeRequest",
            Output(friendshipToRealtimeRequest(subject.value.friendship,
                                               subject.value.requesterProfile)))

EnsureFriendshipOrdering ==
    Returns("ensureFriendshipOrdering",
            Output(ensureFriendshipOrdering(subject.value.user1Id, subject.value.user2Id)))

NextTransform ==
    \/ ChatRecordToRealtime
    \/ RealtimeChatToRecord
    \/ GameSessionToRealtimeInvite
    \/ TicTacToeGameToRealtimeMove
    \/ FriendshipToRealtimeRequest
    \/ EnsureFriendshipOrdering

SpecTransform == InitTransform /\ [][NextTransform]_vars

\* C21: the friend request made from a valid friendship and the valid profile
\* of the one of its two users who asked is addressed to the other user, never
\* to the one who asked, in whichever of user1_id and user2_id the latter is
\* stored, and it carries the display name of the profile.
C21_RequestAddressesOtherSide ==
    Returned("friendshipToRealtimeRequest")
           /\ validateFriendship(subject.value.friendship).isValid
           /\ validateUserProfile(subject.value.requesterProfile).isValid
        => LET friendship == subject.value.friendship.o
               requester == subject.value.requesterProfile.o
               pair == {friendship.user1_id, friendship.user2_id}
           IN  /\ requester.id \in pair =>
                      /\ report.value.o.payload.o.targetUserId \in pair \ {requester.id}
                      /\ report.value.o.payload.o.targetUserId # requester.id
               /\ report.value.o.payload.o.requesterName = requester.display_name

\* C22: the realtime message made from a chat record carries the record's sender
\* as userId, its created_at as timestamp and its id as messageId, and taking it
\* back with the record's id gives the id, sender, receiver, content and message
\* type of the record.
C22_ChatRoundTrip ==
    Returned("chatRecordToRealtime") =>
        LET record == subject.value.o
            draft == realtimeChatToRecord(report.value, record.id).o
        IN  /\ report.value.o.userId = record.sender_id
            /\ report.value.o.timestamp = record.created_at
            /\ report.value.o.messageId = record.id
            /\ draft.id = record.id
            /\ draft.sender_id = record.sender_id
            /\ draft.receiver_id = record.receiver_id
            /\ draft.content = record.content
            /\ draft.message_type = record.message_type

C22_Witness ==
    /\ Returned("chatRecordToRealtime")
    /\ subject.value.o.sender_id = User1
    /\ subject.value.o.receiver_id = User2
    /\ subject.value.o.content = Filled(2)
    /\ realtimeChatToRecord(report.value, subject.value.o.id).o.sender_id = User1
    /\ realtimeChatToRecord(report.value, subject.value.o.id).o.receiver_id = User2

\* C23: for two different identifiers, ensureFriendshipOrdering gives the same
\* pair in whichever order they are passed; the pair holds the two identifiers,
\* the first smaller than the second.
C23_OrderInsensitive ==
    Returned("ensureFriendshipOrdering") /\ subject.value.user1Id # subject.value.user2Id =>
        LET a == subject.value.user1Id
            b == subject.value.user2Id
        IN  /\ report.value = ensureFriendshipOrdering(b, a)
            /\ {report.value[1], report.value[2]} = {a, b}
            /\ StringLessThan(report.value[1].s, report.value[2].s)
            /\ ~StringLessThan(report.value[2].s, report.value[1].s)

C23_Witness ==
    /\ Returned("ensureFriendshipOrdering")
    /\ subject.value.user1Id = User2
    /\ subject.value.user2Id = User1
    /\ report.value = <<User1, User2>>

\* C24: the move message made from a game and the last position has type
\* game_move, the player whose turn it is as userId and as the payload's player,
\* the given position, the session id of the game, and a board that equals the
\* game's board cell for cell.
C24_MoveEnvelope ==
    Returned("ticTacToeGameToRealtimeMove") =>
        LET game == subject.value.game.o
            message == report.value.o
            moveData == message.payload.o.moveData.o
        IN  /\ message.type = Str(<<"game_move">>)
            /\ message.userId = game.current_turn
            /\ moveData.player = game.current_turn
            /\ moveData.position = subject.value.lastMove
            /\ message.payload.o.sessionId = game.session_id
            /\ Len(moveData.boardState.cells) = Len(game.board_state.cells)
            /\ \A i \in 1..Len(game.board_state.cells) :
                   moveData.boardState.cells[i] = game.board_state.cells[i]

C24_Witness ==
    /\ Returned("ticTacToeGameToRealtimeMove")
    /\ subject.value.game = GameWith(BoardOf(9, 5))
    /\ subject.value.lastMove = Num(4)
    /\ report.value.o.payload.o.moveData.o.boardState.cells[5] = Str(<<"X">>)
    /\ report.value.o.payload.o.moveData.o.position = Num(4)

(***************************************************************************)
(* The validators on values that are no records.  Every property the       *)
(* validators read is undefined on a string, a number and an array of      *)
(* cells; null and undefined are never asked for one.                      *)
(***************************************************************************)
NoProperties ==
    [ id |-> JSUndefined, email |-> JSUndefined, display_name |-> JSUndefined,
      avatar_url |-> JSUndefined, created_at |-> JSUndefined, updated_at |-> JSUndefined,
      user1_id |-> JSUndefined, user2_id |-> JSUndefined, status |-> JSUndefined,
      accepted_at |-> JSUndefined, player1_id |-> JSUndefined, player2_id |-> JSUndefined,
      game_type |-> JSUndefined, winner_id |-> JSUndefined, completed_at |-> JSUndefined,
      session_id |-> JSUndefined, board_state |-> NoBoard, current_turn |-> JSUndefined,
      sender_id |-> JSUndefined, receiver_id |-> JSUndefined, content |-> JSUndefined,
      message_type |-> JSUndefined, read_at |-> JSUndefined, type |-> JSUndefined,
      payload |-> JSUndefined, userId |-> JSUndefined, timestamp |-> JSUndefined,
      messageId |-> JSUndefined, receiverId |-> JSUndefined, messageType |-> JSUndefined,
      sessionId |-> JSUndefined, gameType |-> JSUndefined, moveData |-> NoMoveData ]

Bare(v, cells) ==
    [t |-> v.t, s |-> v.s, n |-> v.n, f |-> v.f, o |-> NoProperties, cells |-> cells]

\* null, undefined, "not an object", "", 42, 0, NaN, 3.5
Primitives ==
    {Bare(v, <<>>) : v \in {JSNull, JSUndefined, Word("not an object"), EmptyString,
                            Num(42), Num(0), NumNaN, NumHalf(3)}}

\* [], ["X"] and a board of nine cells
Arrays == {Bare(Array(cells), cells) : cells \in {<<>>, <<Str(<<"X">>)>>, BoardOf(9, 5).cells}}

Validators ==
    {"validateUserProfile", "validateFriendship", "validateGameSession",
     "validateTicTacToeGame", "validateChatMessageRecord", "validateRealtimeMessage",
     "validateChatPayload", "validateGameMovePayload"}

InitShape ==
    /\ maps = (ConnectionsRef :> {})
    /\ held = {}
    /\ attempts = <<>>
    /\ ret = Call("new", Undefined, Undefined, Undefined)
    /\ displaced = {}
    /\ report = NoReport
    /\ connection_links = {}
    /\ friendships = <<>>
    /\ accepting = <<>>
    /\ \/ \E validator \in Validators, value \in Primitives \cup Arrays :
              subject = Subject(validator, value)
       \/ \E profile \in UserProfiles :
              subject = Subject("validateUserProfile", Object(profile))

ValidateUserProfile == Returns("validateUserProfile", validateUserProfile(subject.value))

NextShape ==
    \/ ValidateUserProfile
    \/ ValidateFriendship
    \/ ValidateGameSession
    \/ ValidateTicTacToeGame
    \/ ValidateChatMessageRecord
    \/ ValidateRealtimeMessage
    \/ ValidateChatPayload
    \/ ValidateGameMovePayload

SpecShape == InitShape /\ [][NextShape]_vars

\* The violation with which a validator turns down a value that is no object.
ShapeMessage(validator) ==
    CASE validator = "validateUserProfile" -> "Profile must be an object"
      [] validator = "validateFriendship" -> "Friendship must be an object"
      [] validator = "validateGameSession" -> "Game session must be an object"
      [] validator = "validateTicTacToeGame" -> "Tic-tac-toe game must be an object"
      [] validator = "validateChatMessageRecord" -> "Message must be an object"
      [] validator = "validateRealtimeMessage" -> "Message must be an object"
      [] validator = "validateChatPayload" -> "Chat payload must be an object"
      [] validator = "validateGameMovePayload" -> "Game move payload must be an object"

\* C25 as stated: every validator reports null, undefined, a string, a number and
\* an array invalid, with the one violation that names the expected shape and
\* without any violation of a field check.
C25_NonObjectsShortCircuit ==
    report.returned /\ subject.value.t # "object" =>
        /\ ~report.isValid
        /\ report.errors = <<ShapeMessage(subject.validator)>>

\* C25: every validator reports null, undefined, a string, a number and an array
\* invalid.  For null, undefined, a string and a number the result holds the one
\* violation that names the expected shape; for an array the field checks run,
\* and the result holds their violations, several of them, and not the one that
\* names the shape.
C25_NonObjectsInvalid ==
    report.returned /\ subject.value.t # "object" =>
        /\ ~report.isValid
        /\ subject.value.t # "array" =>
               report.errors = <<ShapeMessage(subject.validator)>>
        /\ subject.value.t = "array" =>
               /\ Len(report.errors) > 1
               /\ ~Reports(report, ShapeMessage(subject.validator))

C25_Witness ==
    /\ Returned("validateChatPayload")
    /\ subject.value.t = "array"
    /\ subject.value.cells = <<>>
    /\ report.errors = <<"Content must be a non-empty string",
                         "Invalid UUID format for receiverId",
                         "Invalid message type">>

\* C26 as stated: a message whose type is one of the ten, whose userId is a
\* well-formed UUID, whose timestamp is a valid date and whose payload is an
\* object is valid for validateRealtimeMessage.
C26_EnvelopePassesOnFourChecks ==
    Returned("validateRealtimeMessage") =>
        LET message == subject.value.o
        IN  /\ ~KindViolated(message) /\ ~UserIdViolated(message)
            /\ ~TimestampViolated(message) /\ ObjectShaped(message.payload)
            => report.isValid

\* C26: a message whose type is one of the ten, whose userId is a well-formed
\* UUID, whose timestamp is a valid date, whose payload is an object and whose
\* messageId is absent, empty or a well-formed UUID is valid for
\* validateRealtimeMessage, and the result is the same for every other object as
\* payload: a game_move message with a game type outside the set is valid.
C26_EnvelopeIgnoresPayload ==
    Returned("validateRealtimeMessage") =>
        LET message == subject.value.o
        IN  /\ /\ ~KindViolated(message) /\ ~UserIdViolated(message)
               /\ ~TimestampViolated(message) /\ ObjectShaped(message.payload)
               /\ ~MessageIdViolated(message)
               => report.isValid
            /\ ObjectShaped(message.payload) =>
                   \A payload \in {p \in MessagePayloads : ObjectShaped(p)} :
                       validateRealtimeMessage(Object([message EXCEPT !.payload = payload]))
                           = report

C26_Witness ==
    /\ Returned("validateRealtimeMessage")
    /\ subject.value.o.type = Word("game_move")
    /\ subject.value.o.payload.o.gameType = Word("chess")
    /\ subject.value.o.messageId = JSUndefined
    /\ ~validateGameMovePayload(subject.value.o.payload).isValid
    /\ report.isValid

\* { ...dbRecord, created_at, read_at }: the draft with the two dates it lacks
Completed(draft, created_at, read_at) ==
    Object([ id           |-> draft.o.id,
             sender_id    |-> draft.o.sender_id,
             receiver_id  |-> draft.o.receiver_id,
             content      |-> draft.o.content,
             message_type |-> draft.o.message_type,
             created_at   |-> created_at,
             read_at      |-> read_at ])

\* The message passes validateRealtimeMessage and is a chat message, its payload
\* passes validateChatPayload, and the generated id is a well-formed UUID.
InboundChecked ==
    /\ Returned("realtimeChatToRecord")
    /\ subject.value.message.o.type = Str(<<"chat">>)
    /\ validateRealtimeMessage(subject.value.message).isValid
    /\ validateChatPayload(subject.value.message.o.payload).isValid
    /\ isValidUUID(subject.value.generatedId.s)

\* C27: the draft made from a chat message that passes validateRealtimeMessage
\* and whose payload passes validateChatPayload, with a well-formed generated id,
\* completed with the timestamp of the message as created_at and null as
\* read_at, passes validateChatMessageRecord.
C27_InboundChatIsValidRecord ==
    InboundChecked =>
        validateChatMessageRecord(
            Completed(report.value, subject.value.message.o.timestamp, JSNull)).isValid

\* A number in [0, 8]
InRange(position) == TypeOf(position) = "number" /\ ~PositionOutOfRange(position)

\* C28: the message a transform makes from a record that passes its validator
\* passes validateRealtimeMessage: chatRecordToRealtime of a valid chat record,
\* gameSessionToRealtimeInvite of a valid session, ticTacToeGameToRealtimeMove of
\* a valid game with a position in [0, 8], and friendshipToRealtimeRequest of a
\* valid friendship with a valid requester profile.
C28_OutboundPassesEnvelope ==
    /\ (Returned("chatRecordToRealtime") /\ validateChatMessageRecord(subject.value).isValid)
           => validateRealtimeMessage(report.value).isValid
    /\ (Returned("gameSessionToRealtimeInvite") /\ validateGameSession(subject.value).isValid)
           => validateRealtimeMessage(report.value).isValid
    /\ (/\ Returned("ticTacToeGameToRealtimeMove")
        /\ validateTicTacToeGame(subject.value.game).isValid
        /\ InRange(subject.value.lastMove))
           => validateRealtimeMessage(report.value).isValid
    /\ (/\ Returned("friendshipToRealtimeRequest")
        /\ validateFriendship(subject.value.friendship).isValid
        /\ validateUserProfile(subject.value.requesterProfile).isValid)
           => validateRealtimeMessage(report.value).isValid

C28_Witness ==
    /\ Returned("friendshipToRealtimeRequest")
    /\ validateFriendship(subject.value.friendship).isValid
    /\ validateUserProfile(subject.value.requesterProfile).isValid
    /\ subject.value.friendship.o.status = Word("pending")
    /\ subject.value.friendship.o.accepted_at = JSNull
    /\ report.value.o.timestamp = ValidDate
    /\ validateRealtimeMessage(report.value).isValid

(***************************************************************************)
(* ConnectionService.acceptConnectionLink.  A call runs up to its next     *)
(* await in one step; the statement it awaits is carried out by the        *)
(* database in one step, together with the code that follows it up to the  *)
(* next await, which touches only the call's own variables.  A row of      *)
(* connection_links keeps `expired`, whether its expires_at has passed.    *)
(***************************************************************************)
MaxAccepts == 3

Creator == "creator"
LinkUsers == {Creator, "friend", "other"}

LinkToken == "link"
LinkTokens == {LinkToken, "unknown"}

LinkRow(token, created_by, expired, is_used, used_by, used_at) ==
    [ token |-> token, created_by |-> created_by, expired |-> expired,
      is_used |-> is_used, used_by |-> used_by, used_at |-> used_at ]

NoRow == LinkRow("", "", FALSE, FALSE, Null, Null)

\* What the call has returned or thrown so far.
Running == [success |-> FALSE, friendId |-> Undefined, thrown |-> ""]
Thrown(message) == [success |-> FALSE, friendId |-> Undefined, thrown |-> message]
Success(friendId) == [success |-> TRUE, friendId |-> friendId, thrown |-> ""]

Accept(token, userId, pc, linkData, result) ==
    [token |-> token, userId |-> userId, pc |-> pc, linkData |-> linkData, result |-> result]

Accepts == 1..Len(accepting)

InitLink ==
    /\ maps = (ConnectionsRef :> {})
    /\ held = {}
    /\ attempts = <<>>
    /\ ret = Call("new", Undefined, Undefined, Undefined)
    /\ displaced = {}
    /\ subject = NoSubject
    /\ report = NoReport
    /\ \E expired \in BOOLEAN, is_used \in BOOLEAN :
           connection_links =
               {LinkRow(LinkToken, Creator, expired, is_used,
                        IF is_used THEN "other" ELSE Null,
                        IF is_used THEN "then" ELSE Null)}
    /\ friendships = <<>>
    /\ accepting = <<>>

\* The call is made: it sends the select and awaits it.
AcceptConnectionLink(token, userId) ==
    /\ Len(accepting) < MaxAccepts
    /\ accepting' = Append(accepting, Accept(token, userId, "select", NoRow, Running))
    /\ UNCHANGED <<maps, held, attempts, ret, displaced, checked, connection_links,
                   friendships>>

\* .select("*").eq("token", token).eq("is_used", false).single(), then the
\* checks of the row up to the update
Select(c) ==
    /\ accepting[c].pc = "select"
    /\ LET rows == {row \in connection_links :
                        row.token = accepting[c].token /\ ~row.is_used}
           linkData == CHOOSE row \in rows : TRUE
       IN  accepting' = [accepting EXCEPT ![c] =
               IF Cardinality(rows) # 1
               THEN Accept(@.token, @.userId, "thrown", NoRow,
                           Thrown("Connection link not found or already used"))
               ELSE IF linkData.expired
               THEN Accept(@.token, @.userId, "thrown", linkData,
                           Thrown("Connection link has expired"))
               ELSE IF linkData.created_by = @.userId
               THEN Accept(@.token, @.userId, "thrown", linkData,
                           Thrown("Cannot connect to yourself"))
               ELSE Accept(@.token, @.userId, "update", linkData, Running)]
    /\ UNCHANGED <<maps, held, attempts, ret, displaced, checked, connection_links,
                   friendships>>

\* .update({ is_used: true, used_by: userId, used_at }).eq("token", token)
Update(c) ==
    /\ accepting[c].pc = "update"
    /\ connection_links' =
           {IF row.token = accepting[c].token
            THEN LinkRow(row.token, row.created_by, row.expired, TRUE,
                         accepting[c].userId, "now")
            ELSE row : row \in connection_links}
    /\ accepting' = [accepting EXCEPT ![c].pc = "insert"]
    /\ UNCHANGED <<maps, held, attempts, ret, displaced, checked, friendships>>

\* The database answers the update with an error.
UpdateFails(c) ==
    /\ accepting[c].pc = "update"
    /\ accepting' = [accepting EXCEPT
           ![c].pc = "thrown",
           ![c].result = Thrown("Failed to update connection link")]
    /\ UNCHANGED <<maps, held, attempts, ret, displaced, checked, connection_links,
                   friendships>>

\* .insert([{ user_id, friend_id, status }, { ... }]), then return
Insert(c) ==
    /\ accepting[c].pc = "insert"
    /\ friendships' = friendships \o
           << [ user_id |-> accepting[c].linkData.created_by,
                friend_id |-> accepting[c].userId, status |-> "accepted" ],
              [ user_id |-> accepting[c].userId,
                friend_id |-> accepting[c].linkData.created_by, status |-> "accepted" ] >>
    /\ accepting' = [accepting EXCEPT
           ![c].pc = "returned",
           ![c].result = Success(accepting[c].linkData.created_by)]
    /\ UNCHANGED <<maps, held, attempts, ret, displaced, checked, connection_links>>

\* The database answers the insert with an error.
InsertFails(c) ==
    /\ accepting[c].pc = "insert"
    /\ accepting' = [accepting EXCEPT
           ![c].pc = "thrown",
           ![c].result = Thrown("Failed to create friendship")]
    /\ UNCHANGED <<maps, held, attempts, ret, displaced, checked, connection_links,
                   friendships>>

\* Time passes the expires_at of a link.
Elapse ==
    /\ \E row \in connection_links :
           /\ ~row.expired
           /\ connection_links' =
                  (connection_links \ {row})
                      \cup {LinkRow(row.token, row.created_by, TRUE, row.is_used,
                                    row.used_by, row.used_at)}
    /\ UNCHANGED <<maps, held, attempts, ret, displaced, checked, friendships, accepting>>

NextLink ==
    \/ \E token \in LinkTokens, userId \in LinkUsers : AcceptConnectionLink(token, userId)
    \/ \E c \in Accepts : Select(c)
    \/ \E c \in Accepts : Update(c)
    \/ \E c \in Accepts : UpdateFails(c)
    \/ \E c \in Accepts : Insert(c)
    \/ \E c \in Accepts : InsertFails(c)
    \/ Elapse

SpecLink == InitLink /\ [][NextLink]_vars

\* The calls for the link that returned success.
Succeeded == {c \in Accepts : accepting[c].token = LinkToken /\ accepting[c].result.success}

\* The texts with which a call turns a link down before it writes.
TurnedDown ==
    {"Connection link not found or already used", "Connection link has expired",
     "Cannot connect to yourself"}

\* C29: of the calls of acceptConnectionLink for one token, in every
\* interleaving, at most one returns success and the two friendship rows are
\* inserted at most once; a call that fails because the link is used or unknown,
\* has expired or is the caller's own leaves connection_links and friendships as
\* they were.
C29_LinkSingleUse ==
    /\ [](Cardinality(Succeeded) <= 1 /\ Len(friendships) <= 2)
    /\ [][\A c \in Accepts :
              accepting[c].pc # "thrown" /\ accepting'[c].pc = "thrown"
                      /\ accepting'[c].result.thrown \in TurnedDown
                  => UNCHANGED <<connection_links, friendships>>]_vars

\* C30: validateJWT ends with a result for every token and every answer of the
\* provider (a user, an error, no user, a thrown value): a call that has not
\* ended awaits the provider and takes each of its answers; a call that has
\* ended holds either ok with the user's data and no error, or an error text and
\* no data; nothing the provider throws escapes the call.
C30_ValidateJWTTotal ==
    \A c \in Attempts :
        /\ attempts[c].pc \in {"awaiting", "resolved"}
        /\ attempts[c].pc = "awaiting" =>
               /\ attempts[c].result = Pending
               /\ \A resp \in AllResponses : ENABLED GetUserReply(c, resp)
        /\ attempts[c].pc = "resolved" =>
               \/ /\ attempts[c].result.ok
                  /\ attempts[c].result.error = Undefined
                  /\ attempts[c].result.value.userId # Undefined
               \/ /\ ~attempts[c].result.ok
                  /\ attempts[c].result.error # Undefined
                  /\ attempts[c].result.value = NoAuthData

C30_Witness ==
    \E c \in Attempts :
        /\ attempts[c].pc = "resolved"
        /\ attempts[c].resp = Rejects("object", "fetch failed")
        /\ attempts[c].result = Err("JWT validation failed: [object Object]")

====
